---- MODULE Spec2Model ----
(***************************************************************************)
(* A model of the Xenon emulator's System Management Controller (SMC),     *)
(* its PCI configuration space and the PCI bridge's interrupt routing.     *)
(*                                                                         *)
(* Words are kept as little-endian byte sequences (<<b0, b1, b2, b3>>),    *)
(* the way memcpy/memset see them on the host, so that accesses of 1, 2,   *)
(* 4 and 8 bytes behave as in the code.                                    *)
(***************************************************************************)
EXTENDS Integers, Sequences, FiniteSets, TLC

(***************************************************************************)
(* Register offsets and protocol values (SMC.cpp)                          *)
(***************************************************************************)
UART_BYTE_OUT_REG == 16
UART_BYTE_IN_REG == 20
UART_STATUS_REG == 24
UART_CONFIG_REG == 28
SMI_INT_STATUS_REG == 80
SMI_INT_ACK_REG == 88
SMI_INT_ENABLED_REG == 92
CLCK_INT_ENABLED_REG == 100
CLCK_INT_STATUS_REG == 108
FIFO_IN_DATA_REG == 128
FIFO_IN_STATUS_REG == 132
FIFO_OUT_DATA_REG == 144
FIFO_OUT_STATUS_REG == 148

FIFO_STATUS_READY == 4
FIFO_STATUS_BUSY == 0
SMI_INT_ENABLED == 12
SMI_INT_NONE == 0
SMI_INT_PENDING == 268435456
CLCK_INT_ENABLED == 268435456
CLCK_INT_READY == 1
CLCK_INT_TAKEN == 3

\* sizeof(smcCoreState.fifoDataBuffer)
FIFO_SIZE == 16
\* the clock period of the SMC loop, in milliseconds
CLOCK_PERIOD_MS == 500
\* the UART configuration the status read falls back to (115200,8,N,1)
UART_DEFAULT_CONFIG == 486

(***************************************************************************)
(* SMC_FIFO_CMD: the command identifiers (declared in SMC.h)               *)
(***************************************************************************)
SMC_PWRON_TYPE == 1
SMC_QUERY_RTC == 4
SMC_QUERY_TEMP_SENS == 7
SMC_QUERY_TRAY_STATE == 10
SMC_QUERY_AVPACK == 15
SMC_I2C_READ_WRITE == 17
SMC_QUERY_VERSION == 18
SMC_SET_STANDBY == 130
SMC_SET_FP_LEDS == 153
\* the commands the dispatcher names but only logs
LoggedOnlyCmds == {19, 22, 23, 30, 32, 133, 136, 137, 139, 140, 141, 144,
                   148, 149, 152, 154, 155, 156, 157, 159}
\* SMC_TRAY_STATE.SMC_TRAY_CLOSED (declared in SMC.h)
SMC_TRAY_CLOSED == 98
\* UART_STATUS_EMPTY (declared with the UART backends)
UART_STATUS_EMPTY == 2

(***************************************************************************)
(* Bounds of the model                                                     *)
(***************************************************************************)
\* messages a protocol-following guest sends in one run
MaxMsgs == 2
\* the model's clock stops after this many time quanta
MaxQuanta == 11
\* one time quantum, in milliseconds
TimeQuantum == 100

\* termination signals delivered in one run
MaxSignals == 2
\* the steps in which time passes while a shutdown handler waits, and how many
WaitQuantum == 7500
MaxWaitQuanta == 2
\* Main.cpp: std::this_thread::sleep_for(15s), in milliseconds
HANDLER_WAIT_MS == 15000
\* accesses the guest makes in a run that tries offsets that are no register
MaxOddOps == 3
\* register writes the guest makes in a run that reads each of them back
MaxReadBacks == 2
\* priority-register writes the guest makes in a run
MaxPrioWrites == 2
\* FIFO register accesses a guest makes in a run that keeps no protocol
MaxFifoOps == 4

(***************************************************************************)
(* Bytes and words                                                         *)
(***************************************************************************)
Byte == 0..255

Pow2(k) == 2 ^ k

\* bit k of byte b
Bit(b, k) == (b \div Pow2(k)) % 2

\* b & m on bytes
BitAnd(a, b) ==
  LET RECURSIVE And(_, _, _)
      And(x, y, k) == IF k = 8 THEN 0
                      ELSE (IF Bit(x, k) = 1 /\ Bit(y, k) = 1 THEN Pow2(k) ELSE 0)
                           + And(x, y, k + 1)
  IN And(a, b, 0)

\* the little-endian bytes of a number below 2^31, as a u32
U32(n) == [k \in 1..4 |-> (n \div (256 ^ (k - 1))) % 256]

\* the little-endian bytes of a number below 2^31, as a u64
U64(n) == [k \in 1..8 |-> IF k <= 4 THEN (n \div (256 ^ (k - 1))) % 256 ELSE 0]

ZeroWord == <<0, 0, 0, 0>>
AllOnes32 == <<255, 255, 255, 255>>

\* memcpy(&dst, src, size): the first `size` bytes of dst are replaced; the
\* bytes a copy longer than dst would write lie outside dst
Memcpy(dst, src, size) ==
  [k \in 1..Len(dst) |-> IF k <= size /\ k <= Len(src) THEN src[k] ELSE dst[k]]

\* memcpy(data, &src, size) as the caller sees it: the bytes read; a byte
\* beyond src is storage outside the object, marked -1
ReadBytes(src, size) ==
  [k \in 1..size |-> IF k <= Len(src) THEN src[k] ELSE -1]

\* u64 tmp = 0; memcpy(&tmp, data, size)
Tmp64(data, size) == [k \in 1..8 |-> IF k <= size /\ k <= Len(data) THEN data[k] ELSE 0]

\* what a caller's four-byte buffer holds before a read-back: 0xAAAAAAAA
ReadBackPrior == <<170, 170, 170, 170>>

\* reg & mask != 0 for a mask that lives in the low byte
LowMaskSet(reg, mask) == BitAnd(reg[1], mask) # 0

(***************************************************************************)
(* State                                                                   *)
(***************************************************************************)
VARIABLES
  \* SMC device (SMC.cpp)
  smcPCIState,        \* the guest-visible registers, each a 4-byte word
  fifoDataBuffer,     \* smcCoreState.fifoDataBuffer, 16 bytes (index i is element i+1)
  fifoBufferPos,      \* smcCoreState.fifoBufferPos
  hanaState,          \* the HANA register image the SMC thread works on
  smcCore,            \* configured core state: power-on reason, AV pack, tray, revision
  uartSetupNeeded,    \* uartHandle->SetupNeeded()
  pciConfigSpace,     \* the SMC's configuration space: the bytes stored since construction
  pciDevSizes,        \* the SMC's BAR sizes, BAR k is element k+1
  \* SMC worker thread
  smcPc,              \* position of smcMainThread
  noResponse,         \* its local flag
  timerStart,         \* its local time stamps, in milliseconds
  timerNow,
  smcThreadRunning,
  XeRunning,          \* Global.h
  \* PCI bridge (PCIBridge.cpp)
  pciBridgeState,     \* per source: hexData, intEnabled, latched, targetCPU, cpuIRQ
  pciBridgeConfig,    \* the bridge's own configuration space: the bytes stored since construction
  connectedPCIDevices,\* the catalog of attached devices: name -> device object
  \* environment
  now,                \* the steady clock, in milliseconds
  gPc,                \* position of a guest that follows the FIFO protocol
  gMsg,               \* the 16 bytes that guest is sending
  gSent,              \* messages that guest has completed
  lastRead,           \* the bytes the last guest read returned
  \* history (what happened, never read by the program)
  ev,                 \* the collaborator calls the last step made, in order
  respReady,          \* the SMC set FIFO_OUT_STATUS READY after the last completed message
  iter,               \* the SMC loop iteration in progress
  clockAcked,         \* the guest left CLCK_INT_READY in the status register since the last tick
  armedAt,            \* when clock interrupts became enabled-and-READY (-1: not armed)
  lastTick,           \* the clock ticks so far: how many, when the last one was raised,
                      \* the timer restart that came with it and since when the
                      \* guest had the clock armed then
  startedAt,          \* when the SMC thread started its timer (-1: not yet)
  busyStored,         \* a guest store left FIFO_IN_STATUS BUSY since the loop last took a command
  oob,                \* an access went beyond the FIFO buffer
  hanaAsked,          \* per HANA register, the word the last SMBus write message asked to store
  guestFollows,       \* every guest store to FIFO_IN_STATUS so far followed the protocol
  busFault,           \* the bridge executed undefined behaviour and the process died of it
  \* process lifecycle (Global.h, Main.cpp)
  XePaused,
  XeShutdonSignaled,
  hupflag,
  handlers,           \* the runs of globalShutdownHandler so far, one per signal:
                      \* position, end of its wait, whether it runs on the main thread
  mainPc,             \* position of main()
  procExit,           \* how the process ended ("none": it is alive)
  shutdowns           \* who has called XeMain::Shutdown, in order

smcDevVars == <<smcPCIState, fifoDataBuffer, fifoBufferPos, uartSetupNeeded>>
cfgVars == <<pciConfigSpace, pciDevSizes>>
thrVars == <<smcPc, noResponse, timerStart, timerNow>>
runVars == <<smcThreadRunning, XeRunning>>
busVars == <<pciBridgeConfig, connectedPCIDevices, busFault>>
lifeVars == <<XePaused, XeShutdonSignaled, hupflag, handlers, mainPc, procExit, shutdowns>>
guestVars == <<gPc, gMsg, gSent>>
histVars == <<respReady, iter, clockAcked, armedAt, lastTick, oob, hanaAsked, guestFollows, startedAt, busyStored>>
vars == <<smcPCIState, fifoDataBuffer, fifoBufferPos, hanaState, smcCore,
          uartSetupNeeded, pciConfigSpace, pciDevSizes, smcPc, noResponse,
          timerStart, timerNow, smcThreadRunning, XeRunning, pciBridgeState,
          now, gPc, gMsg, gSent, lastRead, ev, respReady, iter, clockAcked,
          armedAt, lastTick, oob, hanaAsked, guestFollows, startedAt, busyStored,
          pciBridgeConfig, connectedPCIDevices, busFault,
          XePaused, XeShutdonSignaled, hupflag, handlers, mainPc, procExit, shutdowns>>

Revisions == {"Xenon", "Zephyr", "Falcon", "Jasper", "Trinity", "Corona",
              "Corona4GB", "Winchester"}

Sources == {"CLOCK", "SATA_ODD", "SATA_HDD", "SMM", "OHCI_0", "OHCI_1",
            "EHCI_0", "EHCI_1", "XMA", "AUDIO", "ENET", "SFCX", "GRAPHICS", "XPS"}

\* the sources RouteInterrupt gates on the priority register
GatedSources == Sources \ {"GRAPHICS", "XPS"}

\* the sources whose priority register PCIBridge::Write decodes
WiredSources == Sources \ {"GRAPHICS", "XPS"}

(***************************************************************************)
(* PCIBridge::RouteInterrupt: the IIC calls it makes                       *)
(***************************************************************************)
M_RouteNoGate(bs, prio, targetCPU) ==
  IF prio \in GatedSources
  THEN << <<"genInterrupt", prio, bs[prio].targetCPU>> >>
  ELSE IF prio \in {"GRAPHICS", "XPS"}
  THEN IF targetCPU # 255 THEN << <<"genInterrupt", prio, targetCPU>> >> ELSE <<>>
  ELSE <<>>

M_RouteGfxConfigured(bs, prio, targetCPU) ==
  IF prio \in GatedSources
  THEN IF bs[prio].intEnabled THEN << <<"genInterrupt", prio, bs[prio].targetCPU>> >>
       ELSE <<>>
  ELSE IF prio \in {"GRAPHICS", "XPS"}
  THEN IF targetCPU # 255 THEN << <<"genInterrupt", prio, bs[prio].targetCPU>> >>
       ELSE << <<"genInterrupt", prio, targetCPU>> >>
  ELSE <<>>

RouteInterrupt(bs, prio, targetCPU) ==
  IF prio \in GatedSources
  THEN IF bs[prio].intEnabled THEN << <<"genInterrupt", prio, bs[prio].targetCPU>> >>
       ELSE <<>>
  ELSE IF prio \in {"GRAPHICS", "XPS"}
  THEN IF targetCPU # 255 THEN << <<"genInterrupt", prio, targetCPU>> >> ELSE <<>>
  ELSE <<>>

\* the record of a call pciBridge->RouteInterrupt(prio) made by a device: the
\* call itself, then what the bridge asked of the IIC (the parameter defaults
\* to 0xFF, no target CPU)
RouteCall(bs, prio) == << <<"RouteInterrupt", prio>> >> \o RouteInterrupt(bs, prio, 255)

(***************************************************************************)
(* PCIBridge::CancelInterrupt: the IIC calls it makes.  GRAPHICS is tested *)
(* like the wired sources; XPS has no case and ends in the default.        *)
(***************************************************************************)
CancelInterrupt(bs, prio) ==
  IF prio \in GatedSources \cup {"GRAPHICS"}
  THEN IF bs[prio].intEnabled THEN << <<"cancelInterrupt", prio, bs[prio].targetCPU>> >>
       ELSE <<>>
  ELSE <<>>

(***************************************************************************)
(* SMC::Write, SMC::MemSet, SMC::Read as functions of the device state     *)
(*   d = [st: registers, buf: FIFO buffer, pos: cursor, uart: setup needed,*)
(*        oob: an access left the buffer]                                  *)
(***************************************************************************)
Dev == [st |-> smcPCIState, buf |-> fifoDataBuffer, pos |-> fifoBufferPos,
        uart |-> uartSetupNeeded, oob |-> oob]

ZeroBuffer == [k \in 1..FIFO_SIZE |-> 0]

\* memcpy/memset into fifoDataBuffer at the cursor; bytes past the buffer's end
\* fall outside it
BufStore(buf, pos, bytes, size) ==
  [k \in 1..FIFO_SIZE |->
     IF k - 1 >= pos /\ k - 1 < pos + size THEN bytes[k - pos] ELSE buf[k]]

\* memcpy(data, &fifoDataBuffer[pos], size)
BufLoad(buf, pos, size) ==
  [k \in 1..size |-> IF pos + k <= FIFO_SIZE THEN buf[pos + k] ELSE -1]

\* the FIFO status registers' side effect after a store
M_StatusStoredInReg(d, reg, newReg, clearBuf) ==
  LET st2 == [d.st EXCEPT !.fifoInStatusReg = newReg] IN
  IF newReg = U32(FIFO_STATUS_READY)
  THEN [d EXCEPT !.st = st2, !.pos = 0,
                 !.buf = IF clearBuf THEN ZeroBuffer ELSE d.buf]
  ELSE [d EXCEPT !.st = st2]

StatusStored(d, reg, newReg, clearBuf) ==
  LET st2 == [d.st EXCEPT ![reg] = newReg] IN
  IF newReg = U32(FIFO_STATUS_READY)
  THEN [d EXCEPT !.st = st2, !.pos = 0,
                 !.buf = IF clearBuf THEN ZeroBuffer ELSE d.buf]
  ELSE [d EXCEPT !.st = st2]

\* the common body of Write and MemSet: `bytes` are the size bytes stored (for
\* MemSet, size copies of the byte), which replace the first bytes of a register
Store(d, regOffset, bytes, size, isWrite) ==
  CASE regOffset = UART_BYTE_IN_REG ->
         [d EXCEPT !.st.uartInReg = Memcpy(@, bytes, size)]
    [] regOffset = UART_CONFIG_REG ->
         \* Write initialises the UART if it still needs it; MemSet does not
         [d EXCEPT !.st.uartConfigReg = Memcpy(@, bytes, size),
                   !.uart = IF isWrite THEN FALSE ELSE @]
    [] regOffset = SMI_INT_STATUS_REG ->
         [d EXCEPT !.st.smiIntPendingReg = Memcpy(@, bytes, size)]
    [] regOffset = SMI_INT_ACK_REG ->
         [d EXCEPT !.st.smiIntAckReg = Memcpy(@, bytes, size)]
    [] regOffset = SMI_INT_ENABLED_REG ->
         [d EXCEPT !.st.smiIntEnabledReg = Memcpy(@, bytes, size)]
    [] regOffset = CLCK_INT_ENABLED_REG ->
         [d EXCEPT !.st.clockIntEnabledReg = Memcpy(@, bytes, size)]
    [] regOffset = CLCK_INT_STATUS_REG ->
         [d EXCEPT !.st.clockIntStatusReg = Memcpy(@, bytes, size)]
    [] regOffset = FIFO_IN_STATUS_REG ->
         StatusStored(d, "fifoInStatusReg",
                      Memcpy(d.st.fifoInStatusReg, bytes, size), TRUE)
    [] regOffset = FIFO_OUT_STATUS_REG ->
         StatusStored(d, "fifoOutStatusReg",
                      Memcpy(d.st.fifoOutStatusReg, bytes, size), FALSE)
    [] regOffset = FIFO_IN_DATA_REG ->
         [d EXCEPT !.buf = BufStore(d.buf, d.pos, bytes, size),
                   !.pos = d.pos + 4,
                   !.oob = d.oob \/ d.pos + size > FIFO_SIZE]
    [] OTHER -> d   \* unknown register: logged, nothing stored

\* SMC::Write(writeAddress, data, size); regOffset = static_cast<u8>(writeAddress)
SMC_Write(d, regOffset, data, size) ==
  Store(d, regOffset, [k \in 1..size |-> data[k]], size, TRUE)

\* SMC::MemSet(writeAddress, data, size)
SMC_MemSet(d, regOffset, data, size) ==
  Store(d, regOffset, [k \in 1..size |-> data % 256], size, FALSE)

\* SMC::Read(readAddress, data, size): the device state afterwards and the
\* caller's `size` bytes, which held `prior` before the call.  uartByte and
\* uartOk are what the UART backend answered (Read() and retVal), uartStat its
\* ReadStatus().
SMC_Read(d, regOffset, size, prior, uartByte, uartOk, uartStat) ==
  CASE regOffset = UART_BYTE_OUT_REG ->
         [d |-> [d EXCEPT !.st.uartOutReg = U32(uartByte)],
          data |-> IF uartOk THEN ReadBytes(U32(uartByte), size) ELSE prior]
    [] regOffset = UART_STATUS_REG ->
         [d |-> [d EXCEPT !.st.uartStatusReg = U32(uartStat), !.uart = FALSE],
          data |-> ReadBytes(U32(uartStat), size)]
    [] regOffset = UART_CONFIG_REG ->
         [d |-> d, data |-> ReadBytes(d.st.uartConfigReg, size)]
    [] regOffset = SMI_INT_STATUS_REG ->
         [d |-> d, data |-> ReadBytes(d.st.smiIntPendingReg, size)]
    [] regOffset = SMI_INT_ACK_REG ->
         [d |-> d, data |-> ReadBytes(d.st.smiIntAckReg, size)]
    [] regOffset = SMI_INT_ENABLED_REG ->
         [d |-> d, data |-> ReadBytes(d.st.smiIntEnabledReg, size)]
    [] regOffset = FIFO_IN_STATUS_REG ->
         [d |-> d, data |-> ReadBytes(d.st.fifoInStatusReg, size)]
    [] regOffset = FIFO_OUT_STATUS_REG ->
         [d |-> d, data |-> ReadBytes(d.st.fifoOutStatusReg, size)]
    [] regOffset = FIFO_OUT_DATA_REG ->
         [d |-> [d EXCEPT !.pos = d.pos + 4,
                          !.oob = d.oob \/ d.pos + size > FIFO_SIZE],
          data |-> BufLoad(d.buf, d.pos, size)]
    [] OTHER -> [d |-> d, data |-> prior]   \* unknown register: logged, data untouched

(***************************************************************************)
(* SMC::ConfigRead, SMC::ConfigWrite                                       *)
(***************************************************************************)
\* number of BARs a device declares sizes for (pciDevSizes, PCIDevice.h)
BAR_COUNT == 6

AllOnes64 == <<255, 255, 255, 255, 0, 0, 0, 0>>

\* tmp &= ~x for x = 2^k
ClearBit(tmp, k) ==
  [tmp EXCEPT ![(k \div 8) + 1] = @ - Bit(@, k % 8) * Pow2(k % 8)]

\* for (idx = 2; idx < 31; idx++) { tmp &= ~x; x <<= 1; if (x >= size) break; }
\* with x = 2^k on entry
RECURSIVE ScanLoop(_, _, _, _)
ScanLoop(tmp, k, idx, devSize) ==
  IF idx >= 31 THEN tmp
  ELSE LET t2 == ClearBit(tmp, k) IN
       IF Pow2(k + 1) >= devSize THEN t2 ELSE ScanLoop(t2, k + 1, idx + 1, devSize)

\* the PCI BAR size discovery: u64 x = 2; the loop; tmp &= ~0x3
M_BarDiscoveryKeepsLowBits(tmp, devSize) ==
  ScanLoop(tmp, 2, 2, devSize)

BarDiscovery(tmp, devSize) ==
  ClearBit(ClearBit(ScanLoop(tmp, 1, 2, devSize), 0), 1)

\* pciDevSizes[regOffset]; regOffset runs up to 8 for offsets 0x28..0x33, past
\* the declared sizes, where the read yields whatever lies behind them (any)
DevSizeAt(sizes, regOffset, any) ==
  IF regOffset < BAR_COUNT THEN sizes[regOffset + 1] ELSE any

\* the value ConfigWrite stores: tmp after the checks
ConfigValue(sizes, off, data, size, any) ==
  LET tmp == Tmp64(data, size)
      regOffset == (off - 16) \div 4
  IN IF off >= 16 /\ off < 52
     THEN IF off = 48 THEN [k \in 1..8 |-> 0]     \* expansion ROM: not implemented
          ELSE IF DevSizeAt(sizes, regOffset, any) # 0 /\ tmp = AllOnes64
          THEN BarDiscovery(tmp, DevSizeAt(sizes, regOffset, any))
          ELSE tmp
     ELSE tmp

\* pciConfigSpace.data as the constructor leaves it: a copy of
\* smcConfigSpaceMap (data of SMC.h), kept as zero bytes here.  The variable
\* pciConfigSpace keeps the bytes stored since, by offset.
SmcConfigSpaceMap == [off \in 0..255 |-> 0]

\* pciConfigSpace.data[off]
CfgByte(cfg, off) == IF off \in DOMAIN cfg THEN cfg[off] ELSE SmcConfigSpaceMap[off]

\* SMC::ConfigWrite(writeAddress, data, size); off = static_cast<u8>(writeAddress)
SMC_ConfigWrite(cfg, sizes, off, data, size, any) ==
  LET tmp == ConfigValue(sizes, off, data, size, any)
      stored == {o \in off..(off + size - 1) : o <= 255}
  IN [o \in (DOMAIN cfg) \cup stored |-> IF o \in stored THEN tmp[o - off + 1] ELSE cfg[o]]

\* SMC::ConfigRead(readAddress, data, size): the bytes returned; a byte past
\* the configuration space is storage outside it, marked -1
SMC_ConfigRead(cfg, off, size) ==
  [k \in 1..size |-> IF off + k <= 256 THEN CfgByte(cfg, off + k - 1) ELSE -1]

(***************************************************************************)
(* smcMainThread: the command dispatch (the switch under the mutex)        *)
(***************************************************************************)
\* fifoDataBuffer[i]
At(buf, i) == buf[i + 1]

\* fifoDataBuffer[i] = v, for each pair <<i, v>> of `writes`, in order
RECURSIVE Put(_, _)
Put(buf, writes) ==
  IF writes = <<>> THEN buf
  ELSE Put([buf EXCEPT ![Head(writes)[1] + 1] = Head(writes)[2]], Tail(writes))

\* hanaState points at one of two global tables, FAT_HANA_State or HANA_State
\* (256 u32 each, data of HANA_State.h).  The variable keeps the table's name
\* and the words stored into it since; HanaTable gives the words as shipped,
\* kept as zero words here.
HanaTable(name) == [i \in 0..255 |-> ZeroWord]

\* hanaState[i]
HanaGet(hana, i) == IF i \in DOMAIN hana.set THEN hana.set[i] ELSE HanaTable(hana.table)[i]

\* hanaState[i] = w
HanaSet(hana, i, w) ==
  [hana EXCEPT !.set = [j \in (DOMAIN hana.set) \cup {i} |-> IF j = i THEN w ELSE hana.set[j]]]

NoHana == [table |-> "none", set |-> <<>>]

\* the table smcMainThread selects for a console revision
HanaImage(rev) ==
  [table |-> IF rev \in {"Xenon", "Zephyr", "Falcon", "Jasper"}
             THEN "FAT_HANA_State" ELSE "HANA_State",
   set |-> <<>>]

\* reinterpret_cast<u8*>(hanaState)[0xFE] = v: byte 0xFE of the image is byte
\* 0xFE % 4 of word 0xFE / 4
HanaPokeByte(hana, byteIdx, v) ==
  HanaSet(hana, byteIdx \div 4,
          [HanaGet(hana, byteIdx \div 4) EXCEPT ![(byteIdx % 4) + 1] = v])

HanaAtStart(rev) ==
  LET img == HanaImage(rev) IN
  CASE rev = "Xenon" -> HanaPokeByte(img, 254, 1)
    [] rev \in {"Falcon", "Jasper"} -> HanaPokeByte(img, 254, 33)
    [] rev \in {"Trinity", "Corona", "Corona4GB", "Winchester"} -> HanaPokeByte(img, 254, 35)
    [] OTHER -> img

\* case 0x10, SMC_READ_SMBUS_I2C: the four stores run in order, each indexing
\* hanaState with fifoDataBuffer[6] as it is at that moment
SmbusRead(buf, hana) ==
  LET b1 == Put(buf, << <<0, SMC_I2C_READ_WRITE>>, <<1, 0>> >>)
  IN IF At(b1, 5) = 240
     THEN LET b4 == Put(b1, << <<4, HanaGet(hana, At(b1, 6))[1]>> >>)
              b5 == Put(b4, << <<5, HanaGet(hana, At(b4, 6))[2]>> >>)
              b6 == Put(b5, << <<6, HanaGet(hana, At(b5, 6))[3]>> >>)
          IN  Put(b6, << <<7, HanaGet(hana, At(b6, 6))[4]>> >>)
     ELSE IF At(b1, 6) + (IF At(b1, 3) = 141 THEN 512 ELSE 256) = 258
          THEN Put(b1, << <<3, 83>>, <<4, 146>>, <<5, 0>>, <<6, 0>> >>)
          ELSE Put(b1, << <<3, 0>>, <<4, 0>>, <<5, 0>>, <<6, 0>> >>)

\* case 0x60, SMC_WRITE_SMBUS: the word stored in hanaState[fifoDataBuffer[6]]
SmbusWriteWord(buf) == <<At(buf, 8), At(buf, 9), At(buf, 10), At(buf, 11)>>

\* case SMC_I2C_READ_WRITE: [buf, hana] afterwards
I2CReadWrite(buf, hana) ==
  LET sub == At(buf, 1)
      ok == Put(buf, << <<0, SMC_I2C_READ_WRITE>>, <<1, 0>> >>)
  IN CASE sub \in {3, 5, 32, 33} -> [buf |-> ok, hana |-> hana]
       [] sub = 16 -> [buf |-> SmbusRead(buf, hana), hana |-> hana]
       [] sub = 17 -> [buf |-> Put(ok, << <<3, 0>>, <<4, 0>>, <<5, 0>>, <<6, 0>> >>),
                       hana |-> hana]
       [] sub = 96 -> [buf |-> ok,
                       hana |-> HanaSet(hana, At(ok, 6), SmbusWriteWord(ok))]
       [] OTHER -> [buf |-> Put(buf, << <<0, SMC_I2C_READ_WRITE>>, <<1, 1>> >>),
                    hana |-> hana]

\* case SMC_PWRON_TYPE
M_PwrOnKeepsRequest(buf, core) ==
  Put(buf, << <<0, SMC_PWRON_TYPE>>, <<1, core.powerOnReason>> >>)

M_PwrOnNoEcho(buf, core) ==
  Put(ZeroBuffer, << <<1, core.powerOnReason>> >>)

PwrOnType(buf, core) ==
  Put(ZeroBuffer, << <<0, SMC_PWRON_TYPE>>, <<1, core.powerOnReason>> >>)

\* the cases that only log, and default: nothing is written to the buffer
M_LoggedOnlyClears(buf) == ZeroBuffer

LoggedOnly(buf) == buf

\* case SMC_SET_STANDBY: the command ID is stored back, then the subtype in
\* byte 1 decides: 0x01 clears XeRunning, 0x04 leads to XeMain::Reboot, any
\* other is logged
M_SetStandbyAnyShuts(buf) ==
  [buf |-> Put(buf, << <<0, SMC_SET_STANDBY>> >>),
   shutdown |-> (At(buf, 1) # 4),
   reboot |-> (At(buf, 1) = 4)]

SetStandby(buf) ==
  [buf |-> Put(buf, << <<0, SMC_SET_STANDBY>> >>),
   shutdown |-> (At(buf, 1) = 1),
   reboot |-> (At(buf, 1) = 4)]

\* the switch on fifoDataBuffer[0], up to the point where it either unlocks for
\* good or unlocks to call XeMain::Reboot:
\*   buf, hana: afterwards; noResponse: the local flag; shutdown: XeRunning was
\*   set false; reboot: XeMain::Reboot is to be called
Dispatch(buf, hana, core) ==
  LET cmd == At(buf, 0)
      same == [buf |-> buf, hana |-> hana, noResponse |-> FALSE,
               shutdown |-> FALSE, reboot |-> FALSE]
  IN CASE cmd = SMC_PWRON_TYPE -> [same EXCEPT !.buf = PwrOnType(buf, core)]
       [] cmd = SMC_QUERY_RTC ->
            [same EXCEPT !.buf = Put(ZeroBuffer, << <<0, SMC_QUERY_RTC>>, <<1, 0>> >>)]
       [] cmd = SMC_QUERY_TEMP_SENS ->
            [same EXCEPT !.buf = Put(buf, << <<0, SMC_QUERY_TEMP_SENS>>,
                 <<1, 36>>, <<2, 27>>, <<3, 47>>, <<4, 164>>,
                 <<5, 44>>, <<6, 36>>, <<7, 38>>, <<8, 44>> >>)]
       [] cmd = SMC_QUERY_TRAY_STATE ->
            [same EXCEPT !.buf = Put(buf, << <<0, SMC_QUERY_TRAY_STATE>>,
                                             <<1, core.trayState>> >>)]
       [] cmd = SMC_QUERY_AVPACK ->
            [same EXCEPT !.buf = Put(buf, << <<0, SMC_QUERY_AVPACK>>,
                                             <<1, core.avPack>> >>)]
       [] cmd = SMC_I2C_READ_WRITE ->
            [same EXCEPT !.buf = I2CReadWrite(buf, hana).buf,
                         !.hana = I2CReadWrite(buf, hana).hana]
       [] cmd = SMC_QUERY_VERSION ->
            [same EXCEPT !.buf = Put(buf, << <<0, SMC_QUERY_VERSION>>,
                                             <<1, 65>>, <<2, 2>>, <<3, 3>> >>)]
       [] cmd = SMC_SET_STANDBY ->
            [same EXCEPT !.buf = SetStandby(buf).buf,
                         !.shutdown = SetStandby(buf).shutdown,
                         !.reboot = SetStandby(buf).reboot]
       [] cmd = SMC_SET_FP_LEDS -> [same EXCEPT !.noResponse = TRUE]
       [] OTHER -> [same EXCEPT !.buf = LoggedOnly(buf)]

(***************************************************************************)
(* PCIBridge::Write / MemSet on the bridge's own window.  Addresses are    *)
(* offsets from PCI_BRIDGE_BASE_ADDRESS (0xEA000000).                      *)
(***************************************************************************)
PrioRegSource(off) ==
  CASE off = 16 -> "CLOCK"   [] off = 20 -> "SATA_ODD" [] off = 24 -> "SATA_HDD"
    [] off = 28 -> "SMM"     [] off = 32 -> "OHCI_0"   [] off = 36 -> "OHCI_1"
    [] off = 40 -> "EHCI_0"  [] off = 44 -> "EHCI_1"   [] off = 56 -> "ENET"
    [] off = 60 -> "XMA"     [] off = 64 -> "AUDIO"    [] off = 68 -> "SFCX"
    [] OTHER -> "none"

PlainRegName(off) ==
  CASE off = 0 -> "REG_EA000000" [] off = 4 -> "REG_EA000004"
    [] off = 12 -> "REG_EA00000C" [] OTHER -> "none"

M_PrioFieldsIrqUnshifted(tmp) ==
  [intEnabled |-> Bit(tmp[3], 7) = 1,
   latched    |-> Bit(tmp[3], 5) = 1,
   targetCPU  |-> BitAnd(tmp[2], 63),
   cpuIRQ     |-> BitAnd(tmp[1], 63)]

\* the fields PCIBridge::Write derives from tmp, the first min(size, 8) bytes
PrioFields(tmp) ==
  [intEnabled |-> Bit(tmp[3], 7) = 1,         \* (tmp & 0x00800000) >> 20, as bool
   latched    |-> Bit(tmp[3], 5) = 1,         \* (tmp & 0x00200000) >> 20, as bool
   targetCPU  |-> BitAnd(tmp[2], 63),         \* (tmp & 0x00003F00) >> 8
   cpuIRQ     |-> (BitAnd(tmp[1], 63) * 4) % 256]   \* (tmp & 0x3F) << 2, as u8

\* bytes: the size bytes stored (Write: the data; MemSet: size copies)
BridgeStore(bs, off, bytes, size) ==
  LET tmp == Tmp64(bytes, size)
      f == PrioFields(tmp)
      src == PrioRegSource(off)
      plain == PlainRegName(off)
  IN IF src # "none"
     THEN [bs EXCEPT ![src] = [hexData    |-> Memcpy(bs[src].hexData, bytes, size),
                               intEnabled |-> f.intEnabled,
                               latched    |-> f.latched,
                               targetCPU  |-> f.targetCPU,
                               cpuIRQ     |-> f.cpuIRQ]]
     ELSE IF plain # "none"
     THEN [bs EXCEPT ![plain] = Memcpy(@, bytes, size)]
     ELSE bs

\* PCIBridge::Read inside the bridge's own window: the bytes the caller's
\* buffer holds afterwards; an unknown register leaves the buffer alone
BridgeLoad(bs, off, size, prior) ==
  LET src == PrioRegSource(off)
      plain == PlainRegName(off)
  IN IF src # "none" THEN ReadBytes(bs[src].hexData, size)
     ELSE IF plain # "none" THEN ReadBytes(bs[plain], size)
     ELSE prior

PrioRegInit == [hexData |-> ZeroWord, intEnabled |-> FALSE, latched |-> FALSE,
                targetCPU |-> 0, cpuIRQ |-> 0]

BridgeInit ==
  [n \in Sources \cup {"REG_EA000000", "REG_EA000004", "REG_EA00000C"} |->
     IF n \in Sources THEN PrioRegInit
     ELSE IF n = "REG_EA00000C" THEN U32(31999) ELSE ZeroWord]

(***************************************************************************)
(* The bridge as a bus: the catalog of attached devices and the dispatch   *)
(* of configuration and memory accesses to them.  A device object is a     *)
(* record [name, id]; id 0 is the empty shared_ptr and the SMC object with *)
(* id 1 is the SMC whose state this module carries.  An address of a       *)
(* memory access is its offset from PCI_BRIDGE_BASE_ADDRESS 0xEA000000; a  *)
(* configuration address is [busNum, devNum, functNum, regOffset].         *)
(***************************************************************************)
NullDevice == [name |-> "", id |-> 0]

TheSMC == [name |-> "SMC", id |-> 1]

\* connectedPCIDevices.insert({name, device}): an existing key keeps its device
CatalogInsert(cat, device) ==
  IF device.name \in DOMAIN cat THEN cat
  ELSE [n \in DOMAIN cat \cup {device.name} |->
          IF n = device.name THEN device.id ELSE cat[n]]

AddPCIDevice(cat, device) ==
  IF device.id = 0 THEN cat
  ELSE CatalogInsert(cat, device)

\* the outcomes of ResetPCIDevice: the catalog, and whether the process died.
\* For a name that is not attached the log statement reads it->first with
\* it == end(): undefined behaviour, which may pass or kill the process
ResetPCIDevice(cat, device) ==
  IF device.id = 0 THEN {[cat |-> cat, fault |-> FALSE]}
  ELSE IF device.name \in DOMAIN cat
  THEN {[cat |-> CatalogInsert([n \in DOMAIN cat \ {device.name} |-> cat[n]], device),
         fault |-> FALSE]}
  ELSE {[cat |-> cat, fault |-> FALSE], [cat |-> cat, fault |-> TRUE]}

\* the device tree of bus 0: the name at (devNum, functNum), "" where the tree
\* lists none
DeviceTable(devNum, functNum) ==
  CASE devNum = 0 /\ functNum = 0 -> "XMA"
    [] devNum = 1 /\ functNum = 0 -> "CDROM"
    [] devNum = 2 /\ functNum = 0 -> "HDD"
    [] devNum = 4 /\ functNum = 0 -> "OHCI0"
    [] devNum = 4 /\ functNum = 1 -> "EHCI0"
    [] devNum = 5 /\ functNum = 0 -> "OHCI1"
    [] devNum = 5 /\ functNum = 1 -> "EHCI1"
    [] devNum = 7 /\ functNum = 0 -> "ETHERNET"
    [] devNum = 8 /\ functNum = 0 -> "SFCX"
    [] devNum = 9 /\ functNum = 0 -> "AUDIOCTRLR"
    [] devNum = 10 /\ functNum = 0 -> "SMC"
    [] devNum = 15 /\ functNum = 0 -> "5841"
    [] OTHER -> ""

TableDevNums == {0, 1, 2, 4, 5, 7, 8, 9, 10, 15}

\* the name the switch on devNum selects: "" where a case assigns none,
\* "default" where the switch ends in its default
DefaultCase == "default"

CurrentDevName(devNum, functNum) ==
  CASE devNum = 0 -> "XMA"
    [] devNum = 1 -> "CDROM"
    [] devNum = 2 -> "HDD"
    [] devNum = 4 -> (IF functNum = 0 THEN "OHCI0" ELSE IF functNum = 1 THEN "EHCI0" ELSE "")
    [] devNum = 5 -> (IF functNum = 0 THEN "OHCI1" ELSE IF functNum = 1 THEN "EHCI1" ELSE "")
    [] devNum = 7 -> "ETHERNET"
    [] devNum = 8 -> "SFCX"
    [] devNum = 9 -> "AUDIOCTRLR"
    [] devNum = 10 -> "SMC"
    [] devNum = 15 -> "5841"
    [] OTHER -> DefaultCase

\* pciBridgeConfig.data as the constructor leaves it (pciBridgeConfigMap of
\* PCIBridgeConfig.h), kept as zero bytes here
BridgeCfgByte(cfg, off) == IF off \in DOMAIN cfg THEN cfg[off] ELSE 0

AllFF(size) == [k \in 1..size |-> 255]

\* b: the bus state [bridgeCfg, cat, smcCfg, sizes]
BusNow == [bridgeCfg |-> pciBridgeConfig, cat |-> connectedPCIDevices,
           smcCfg |-> pciConfigSpace, sizes |-> pciDevSizes, bridge |-> pciBridgeState,
           smc |-> Dev]

\* dev->ConfigRead(readAddress, data, size) of an attached device; a device
\* other than the SMC of this module has a configuration space of zero bytes
DeviceConfigRead(b, name, regOffset, size) ==
  IF name = "SMC" /\ b.cat[name] = 1 THEN SMC_ConfigRead(b.smcCfg, regOffset, size)
  ELSE [k \in 1..size |-> 0]

\* PCIBridge::ConfigRead: the caller's buffer afterwards, the value returned
\* and the device calls made
PCIBridge_ConfigRead(b, a, size, prior) ==
  LET name == CurrentDevName(a.devNum, a.functNum) IN
  IF a.busNum = 0 /\ a.devNum = 0
  THEN [data |-> [k \in 1..size |-> BridgeCfgByte(b.bridgeCfg, a.regOffset + k - 1)],
        ok |-> TRUE, calls |-> <<>>]
  ELSE IF name = DefaultCase
  THEN [data |-> prior, ok |-> TRUE, calls |-> <<>>]
  ELSE IF name \in DOMAIN b.cat
  THEN [data |-> DeviceConfigRead(b, name, a.regOffset, size), ok |-> TRUE,
        calls |-> << <<"dev.ConfigRead", name, b.cat[name]>> >>]
  ELSE [data |-> AllFF(size), ok |-> FALSE, calls |-> <<>>]

\* PCIBridge::ConfigWrite: the configuration spaces afterwards, the value
\* returned and the device calls made
PCIBridge_ConfigWrite(b, a, data, size) ==
  LET name == CurrentDevName(a.devNum, a.functNum)
      same == [bridgeCfg |-> b.bridgeCfg, smcCfg |-> b.smcCfg]
  IN
  IF a.busNum = 0 /\ a.devNum = 0
  THEN [bridgeCfg |-> [o \in DOMAIN b.bridgeCfg \cup (a.regOffset..(a.regOffset + size - 1)) |->
                         IF o >= a.regOffset /\ o < a.regOffset + size
                         THEN Tmp64(data, size)[o - a.regOffset + 1]
                         ELSE b.bridgeCfg[o]],
        smcCfg |-> b.smcCfg, ok |-> TRUE, calls |-> <<>>]
  ELSE IF name = DefaultCase
  THEN [bridgeCfg |-> b.bridgeCfg, smcCfg |-> b.smcCfg, ok |-> TRUE, calls |-> <<>>]
  ELSE IF name \in DOMAIN b.cat
  THEN [bridgeCfg |-> b.bridgeCfg,
        smcCfg |-> IF name = "SMC" /\ b.cat[name] = 1
                   THEN SMC_ConfigWrite(b.smcCfg, b.sizes, a.regOffset, data, size, 0)
                   ELSE b.smcCfg,
        ok |-> TRUE, calls |-> << <<"dev.ConfigWrite", name, b.cat[name]>> >>]
  ELSE [bridgeCfg |-> b.bridgeCfg, smcCfg |-> b.smcCfg, ok |-> FALSE, calls |-> <<>>]

\* the end of the bridge's own window 0xEA000000..0xEA00FFFF, as an offset
PCI_BRIDGE_BASE_END_ADDRESS == 65535

\* IsAddressMappedInBAR of the SMC of this module: some BAR k holds a base
\* with address >= base and address < base + pciDevSizes[k]
SmcMapsAddress(b, addr) ==
  \E k \in 0..(BAR_COUNT - 1) :
    LET bar == SMC_ConfigRead(b.smcCfg, 16 + 4 * k, 4)
        base == bar[1] + 256 * bar[2] + 65536 * bar[3]
    IN /\ bar[4] = 234
       /\ addr >= base
       /\ addr < base + b.sizes[k + 1]

\* the attached devices whose BAR maps the address; a device other than the
\* SMC of this module has its BARs unprogrammed and maps no bridge-side address
MappingDevices(b, addr) ==
  {n \in DOMAIN b.cat : n = "SMC" /\ b.cat[n] = 1 /\ SmcMapsAddress(b, addr)}

M_ReadUnmappedLeavesBuffer(b, addr, size, prior) ==
  IF addr <= PCI_BRIDGE_BASE_END_ADDRESS
  THEN [data |-> BridgeLoad(b.bridge, addr, size, prior), smc |-> b.smc, ok |-> TRUE,
        calls |-> <<>>]
  ELSE IF MappingDevices(b, addr) # {}
  THEN LET r == SMC_Read(b.smc, addr % 256, size, prior, 0, FALSE, 0) IN
       [data |-> r.data, smc |-> r.d, ok |-> TRUE,
        calls |-> << <<"dev.Read", "SMC", 1>> >>]
  ELSE [data |-> prior, smc |-> b.smc, ok |-> FALSE, calls |-> <<>>]

\* PCIBridge::Read
PCIBridge_Read(b, addr, size, prior) ==
  IF addr <= PCI_BRIDGE_BASE_END_ADDRESS
  THEN [data |-> BridgeLoad(b.bridge, addr, size, prior), smc |-> b.smc, ok |-> TRUE,
        calls |-> <<>>]
  ELSE IF MappingDevices(b, addr) # {}
  THEN LET r == SMC_Read(b.smc, addr % 256, size, prior, 0, FALSE, 0) IN
       [data |-> r.data, smc |-> r.d, ok |-> TRUE,
        calls |-> << <<"dev.Read", "SMC", 1>> >>]
  ELSE [data |-> AllFF(size), smc |-> b.smc, ok |-> FALSE, calls |-> <<>>]

\* PCIBridge::Write (isWrite) and PCIBridge::MemSet; bytes are the size bytes
\* to store
PCIBridge_Store(b, addr, bytes, size, isWrite) ==
  IF addr <= PCI_BRIDGE_BASE_END_ADDRESS
  THEN [bridge |-> BridgeStore(b.bridge, addr, bytes, size), smc |-> b.smc, ok |-> TRUE,
        calls |-> <<>>]
  ELSE IF MappingDevices(b, addr) # {}
  THEN [bridge |-> b.bridge,
        smc |-> IF isWrite THEN SMC_Write(b.smc, addr % 256, bytes, size)
                ELSE SMC_MemSet(b.smc, addr % 256, bytes[1], size),
        ok |-> TRUE,
        calls |-> << <<IF isWrite THEN "dev.Write" ELSE "dev.MemSet", "SMC", 1>> >>]
  ELSE [bridge |-> b.bridge, smc |-> b.smc, ok |-> FALSE, calls |-> <<>>]

(***************************************************************************)
(* Steps.  Every guest access is one step: SMC::Read/Write/MemSet hold the *)
(* device mutex from entry to exit.  The SMC thread reads and writes the   *)
(* registers outside the mutex, so each of its register accesses is a step *)
(* of its own and guest accesses interleave with them.                     *)
(***************************************************************************)
NoEv == <<>>

\* locks: the thread's mutex.lock() and mutex.unlock() calls of this iteration
\* and, between them, the collaborators it called
IterInit == [handled |-> FALSE, cmd |-> -1, req |-> <<>>, smi |-> "none", smm |-> 0,
             outReady |-> FALSE, reboots |-> <<>>, locks |-> <<>>]

Armed(st) == st.clockIntEnabledReg = U32(CLCK_INT_ENABLED)
             /\ st.clockIntStatusReg = U32(CLCK_INT_READY)

SetDev(d) ==
  /\ smcPCIState' = d.st
  /\ fifoDataBuffer' = d.buf
  /\ fifoBufferPos' = d.pos
  /\ uartSetupNeeded' = d.uart
  /\ oob' = d.oob

\* a store to FIFO_IN_STATUS that the FIFO protocol allows: BUSY (message
\* complete), or READY while the register reads READY (about to send)
ByProtocol(st2) ==
  \/ st2.fifoInStatusReg = U32(FIFO_STATUS_BUSY)
  \/ /\ st2.fifoInStatusReg = U32(FIFO_STATUS_READY)
     /\ smcPCIState.fifoInStatusReg = U32(FIFO_STATUS_READY)

\* history kept along a guest store to the SMC
GuestStoreHist(regOffset, d) ==
  /\ respReady' = IF regOffset = FIFO_IN_STATUS_REG
                     /\ d.st.fifoInStatusReg = U32(FIFO_STATUS_BUSY)
                  THEN FALSE ELSE respReady
  /\ clockAcked' = IF regOffset = CLCK_INT_STATUS_REG
                      /\ d.st.clockIntStatusReg = U32(CLCK_INT_READY)
                   THEN TRUE ELSE clockAcked
  /\ armedAt' = IF Armed(d.st) THEN (IF Armed(smcPCIState) THEN armedAt ELSE now)
                ELSE -1
  /\ busyStored' = (busyStored \/ (regOffset = FIFO_IN_STATUS_REG
                                    /\ d.st.fifoInStatusReg = U32(FIFO_STATUS_BUSY)))
  /\ guestFollows' = (guestFollows /\ (regOffset = FIFO_IN_STATUS_REG => ByProtocol(d.st)))

GuestWriteCore(regOffset, data, size) ==
  LET d == SMC_Write(Dev, regOffset, data, size) IN
  /\ SetDev(d)
  /\ GuestStoreHist(regOffset, d)
  /\ ev' = NoEv
  /\ UNCHANGED <<hanaState, smcCore, lifeVars, busVars, cfgVars, thrVars, runVars, pciBridgeState,
                 now, lastRead, iter, lastTick, hanaAsked, startedAt>>

GuestMemSetCore(regOffset, data, size) ==
  LET d == SMC_MemSet(Dev, regOffset, data, size) IN
  /\ SetDev(d)
  /\ GuestStoreHist(regOffset, d)
  /\ ev' = NoEv
  /\ UNCHANGED <<hanaState, smcCore, lifeVars, busVars, cfgVars, thrVars, runVars, pciBridgeState,
                 now, lastRead, iter, lastTick, hanaAsked, startedAt>>

GuestReadCore(regOffset, size) ==
  LET r == SMC_Read(Dev, regOffset, size, [k \in 1..size |-> 0], 0, FALSE, 0) IN
  /\ SetDev(r.d)
  /\ ev' = NoEv
  /\ UNCHANGED <<hanaState, smcCore, lifeVars, busVars, cfgVars, thrVars, runVars, pciBridgeState,
                 now, respReady, iter, clockAcked, armedAt, lastTick,
                 hanaAsked, guestFollows, startedAt, busyStored>>

\* a guest store to a bridge register (PCIBridge::Write)
GuestBridgeWrite(off, data, size) ==
  /\ pciBridgeState' = BridgeStore(pciBridgeState, off, data, size)
  /\ ev' = NoEv
  /\ UNCHANGED <<smcDevVars, hanaState, smcCore, lifeVars, busVars, cfgVars, thrVars, runVars,
                 now, guestVars, lastRead, histVars>>

(***************************************************************************)
(* smcMainThread                                                           *)
(***************************************************************************)
\* entry: FIFO_IN_STATUS := READY, the timer is started, the HANA image is
\* selected and fixed up for the console revision
SmcStart ==
  /\ smcPc = "start"
  /\ smcPCIState' = [smcPCIState EXCEPT !.fifoInStatusReg = U32(FIFO_STATUS_READY)]
  /\ timerStart' = now
  /\ startedAt' = now
  /\ hanaState' = HanaAtStart(smcCore.revision)
  /\ smcPc' = "loop"
  /\ ev' = <<>>
  /\ UNCHANGED <<fifoDataBuffer, fifoBufferPos, uartSetupNeeded, smcCore, lifeVars, busVars, cfgVars,
                 noResponse, timerNow, runVars, pciBridgeState, now, guestVars,
                 lastRead, respReady, iter, clockAcked, armedAt, lastTick, oob,
                 hanaAsked, guestFollows, busyStored>>

\* while (smcThreadRunning) { if (fifoInStatusReg == FIFO_STATUS_BUSY) ...
SmcLoop ==
  /\ smcPc = "loop"
  /\ smcPc' = IF ~smcThreadRunning THEN "done"
              ELSE IF smcPCIState.fifoInStatusReg = U32(FIFO_STATUS_BUSY)
              THEN "setOutBusy" ELSE "clock"
  /\ iter' = IterInit
  /\ busyStored' = (busyStored /\ smcPc' # "setOutBusy")
  /\ ev' = <<>>
  /\ UNCHANGED <<smcDevVars, hanaState, smcCore, lifeVars, busVars, cfgVars, noResponse, timerStart,
                 timerNow, runVars, pciBridgeState, now, guestVars, lastRead,
                 respReady, clockAcked, armedAt, lastTick, oob, hanaAsked, guestFollows, startedAt>>

SmcSetOutBusy ==
  /\ smcPc = "setOutBusy"
  /\ smcPCIState' = [smcPCIState EXCEPT !.fifoOutStatusReg = U32(FIFO_STATUS_BUSY)]
  /\ smcPc' = "setInReady"
  /\ ev' = <<>>
  /\ UNCHANGED <<fifoDataBuffer, fifoBufferPos, uartSetupNeeded, hanaState, smcCore, lifeVars, busVars,
                 cfgVars, noResponse, timerStart, timerNow, runVars, pciBridgeState,
                 now, guestVars, lastRead, histVars>>

M_SmcSetInReadyKeepsBusy ==
  /\ smcPc = "setInReady"
  /\ smcPCIState' = smcPCIState
  /\ noResponse' = FALSE
  /\ smcPc' = "dispatch"
  /\ ev' = <<>>
  /\ UNCHANGED <<fifoDataBuffer, fifoBufferPos, uartSetupNeeded, hanaState, smcCore, lifeVars, busVars,
                 cfgVars, timerStart, timerNow, runVars, pciBridgeState,
                 now, guestVars, lastRead, histVars>>

SmcSetInReady ==
  /\ smcPc = "setInReady"
  /\ smcPCIState' = [smcPCIState EXCEPT !.fifoInStatusReg = U32(FIFO_STATUS_READY)]
  /\ noResponse' = FALSE
  /\ smcPc' = "dispatch"
  /\ ev' = <<>>
  /\ UNCHANGED <<fifoDataBuffer, fifoBufferPos, uartSetupNeeded, hanaState, smcCore, lifeVars, busVars,
                 cfgVars, timerStart, timerNow, runVars, pciBridgeState,
                 now, guestVars, lastRead, histVars>>

\* mutex.lock(); switch (fifoDataBuffer[0]) ...; mutex.unlock() -- or, for a
\* reboot request, up to the unlock before XeMain::Reboot
SmcDispatch ==
  /\ smcPc = "dispatch"
  /\ LET r == Dispatch(fifoDataBuffer, hanaState, smcCore) IN
       /\ fifoDataBuffer' = r.buf
       /\ hanaState' = r.hana
       /\ noResponse' = r.noResponse
       /\ XeRunning' = IF r.shutdown THEN FALSE ELSE XeRunning
       /\ smcPc' = IF r.reboot THEN "reboot" ELSE "setOutReady"
  /\ iter' = [iter EXCEPT !.handled = TRUE, !.cmd = At(fifoDataBuffer, 0),
                           !.req = fifoDataBuffer,
                           !.locks = @ \o <<"lock", "unlock">>]
  /\ hanaAsked' = IF At(fifoDataBuffer, 0) = SMC_I2C_READ_WRITE /\ At(fifoDataBuffer, 1) = 96
                  THEN [j \in (DOMAIN hanaAsked) \cup {At(fifoDataBuffer, 6)} |->
                          IF j = At(fifoDataBuffer, 6)
                          THEN <<At(fifoDataBuffer, 8), At(fifoDataBuffer, 9),
                                 At(fifoDataBuffer, 10), At(fifoDataBuffer, 11)>>
                          ELSE hanaAsked[j]]
                  ELSE hanaAsked
  /\ ev' = <<>>
  /\ UNCHANGED <<smcPCIState, fifoBufferPos, uartSetupNeeded, smcCore, lifeVars, busVars, cfgVars,
                 timerStart, timerNow, smcThreadRunning, pciBridgeState, now,
                 guestVars, lastRead, respReady, clockAcked, armedAt, lastTick,
                 oob, guestFollows, startedAt, busyStored>>

\* XeMain::Reboot(fifoDataBuffer[2]), called with the mutex released, then
\* mutex.lock(); break; mutex.unlock()
SmcReboot ==
  /\ smcPc = "reboot"
  /\ smcPc' = "setOutReady"
  /\ ev' = << <<"Reboot", At(fifoDataBuffer, 2)>> >>
  /\ iter' = [iter EXCEPT !.reboots = Append(@, At(fifoDataBuffer, 2)),
                           !.locks = @ \o <<"Reboot", "lock", "unlock">>]
  /\ UNCHANGED <<smcDevVars, hanaState, smcCore, lifeVars, busVars, cfgVars, noResponse, timerStart,
                 timerNow, runVars, pciBridgeState, now, guestVars, lastRead,
                 respReady, clockAcked, armedAt, lastTick, oob, hanaAsked,
                 guestFollows, startedAt, busyStored>>

SmcSetOutReady ==
  /\ smcPc = "setOutReady"
  /\ smcPCIState' = [smcPCIState EXCEPT !.fifoOutStatusReg = U32(FIFO_STATUS_READY)]
  /\ smcPc' = "smiCheck"
  /\ respReady' = TRUE
  /\ iter' = [iter EXCEPT !.outReady = TRUE]
  /\ ev' = <<>>
  /\ UNCHANGED <<fifoDataBuffer, fifoBufferPos, uartSetupNeeded, hanaState, smcCore, lifeVars, busVars,
                 cfgVars, noResponse, timerStart, timerNow, runVars, pciBridgeState,
                 now, guestVars, lastRead, clockAcked, armedAt, lastTick, oob, hanaAsked, guestFollows, startedAt, busyStored>>

\* if (smiIntEnabledReg & SMI_INT_ENABLED && noResponse == false)
M_SmiWantedWholeMask(st, noResp) ==
  st.smiIntEnabledReg = U32(SMI_INT_ENABLED) /\ ~noResp

M_SmiWantedAnyCommand(st, noResp) == LowMaskSet(st.smiIntEnabledReg, SMI_INT_ENABLED)

SmiWanted(st, noResp) == LowMaskSet(st.smiIntEnabledReg, SMI_INT_ENABLED) /\ ~noResp

SmcSmiCheck ==
  /\ smcPc = "smiCheck"
  /\ smcPc' = IF SmiWanted(smcPCIState, noResponse) THEN "smiRaise" ELSE "clock"
  /\ iter' = [iter EXCEPT !.smi =
                IF LowMaskSet(smcPCIState.smiIntEnabledReg, SMI_INT_ENABLED)
                THEN "on" ELSE "off"]
  /\ ev' = <<>>
  /\ UNCHANGED <<smcDevVars, hanaState, smcCore, lifeVars, busVars, cfgVars, noResponse, timerStart,
                 timerNow, runVars, pciBridgeState, now, guestVars, lastRead,
                 respReady, clockAcked, armedAt, lastTick, oob, hanaAsked, guestFollows, startedAt, busyStored>>

\* mutex.lock(); smiIntPendingReg = SMI_INT_PENDING; RouteInterrupt(PRIO_SMM);
\* mutex.unlock()
SmcSmiRaise ==
  /\ smcPc = "smiRaise"
  /\ smcPCIState' = [smcPCIState EXCEPT !.smiIntPendingReg = U32(SMI_INT_PENDING)]
  /\ smcPc' = "clock"
  /\ iter' = [iter EXCEPT !.smm = @ + 1,
                           !.locks = @ \o <<"lock", "RouteInterrupt(SMM)", "unlock">>]
  /\ ev' = RouteCall(pciBridgeState, "SMM")
  /\ UNCHANGED <<fifoDataBuffer, fifoBufferPos, uartSetupNeeded, hanaState, smcCore, lifeVars, busVars,
                 cfgVars, noResponse, timerStart, timerNow, runVars, pciBridgeState,
                 now, guestVars, lastRead, respReady, clockAcked, armedAt,
                 lastTick, oob, hanaAsked, guestFollows, startedAt, busyStored>>

\* timerNow = now(); if (clockIntEnabledReg == CLCK_INT_ENABLED)
SmcClockEnabled ==
  /\ smcPc = "clock"
  /\ timerNow' = now
  /\ smcPc' = IF smcPCIState.clockIntEnabledReg = U32(CLCK_INT_ENABLED)
              THEN "clockStatus" ELSE "loop"
  /\ ev' = <<>>
  /\ UNCHANGED <<smcDevVars, hanaState, smcCore, lifeVars, busVars, cfgVars, noResponse, timerStart,
                 runVars, pciBridgeState, now, guestVars, lastRead, histVars>>

\* if (clockIntStatusReg == CLCK_INT_READY) if (timerNow >= timerStart + 500ms)
M_ClockDueNoWait(st, tNow, tStart) ==
  st.clockIntStatusReg = U32(CLCK_INT_READY)

ClockDue(st, tNow, tStart) ==
  st.clockIntStatusReg = U32(CLCK_INT_READY) /\ tNow >= tStart + CLOCK_PERIOD_MS

SmcClockStatus ==
  /\ smcPc = "clockStatus"
  /\ smcPc' = IF ClockDue(smcPCIState, timerNow, timerStart)
              THEN "clockRaise" ELSE "loop"
  /\ ev' = <<>>
  /\ UNCHANGED <<smcDevVars, hanaState, smcCore, lifeVars, busVars, cfgVars, noResponse, timerStart,
                 timerNow, runVars, pciBridgeState, now, guestVars, lastRead,
                 histVars>>

\* timerStart = std::chrono::steady_clock::now();  taken before the lock, so
\* time may pass between the stamp and the interrupt
SmcClockStamp ==
  /\ smcPc = "clockRaise"
  /\ timerStart' = now
  /\ smcPc' = "clockLocked"
  /\ ev' = <<>>
  /\ UNCHANGED <<smcDevVars, hanaState, smcCore, lifeVars, busVars, cfgVars, noResponse, timerNow,
                 runVars, pciBridgeState, now, guestVars, lastRead, histVars>>

\* mutex.lock(); clockIntStatusReg = CLCK_INT_TAKEN;
\* RouteInterrupt(PRIO_CLOCK); mutex.unlock()
SmcClockRaise ==
  /\ smcPc = "clockLocked"
  /\ smcPCIState' = [smcPCIState EXCEPT !.clockIntStatusReg = U32(CLCK_INT_TAKEN)]
  /\ smcPc' = "loop"
  /\ clockAcked' = FALSE
  /\ armedAt' = -1
  /\ lastTick' = [n |-> lastTick.n + 1, at |-> now, timer |-> timerStart,
                  armed |-> armedAt]
  /\ ev' = RouteCall(pciBridgeState, "CLOCK")
  /\ iter' = [iter EXCEPT !.locks = @ \o <<"lock", "RouteInterrupt(CLOCK)", "unlock">>]
  /\ UNCHANGED <<fifoDataBuffer, fifoBufferPos, uartSetupNeeded, hanaState, smcCore, lifeVars, busVars,
                 cfgVars, noResponse, timerStart, timerNow, runVars, pciBridgeState,
                 now, guestVars, lastRead, respReady, oob, hanaAsked,
                 guestFollows, startedAt, busyStored>>

(***************************************************************************)
(* The state after construction (SMC::SMC, PCIBridge::PCIBridge): every    *)
(* SMC register is zero, the worker thread has been spawned and has not    *)
(* run yet.                                                                *)
(***************************************************************************)
SmcRegNames == {"uartInReg", "uartOutReg", "uartStatusReg", "uartConfigReg",
                "smiIntPendingReg", "smiIntAckReg", "smiIntEnabledReg",
                "clockIntEnabledReg", "clockIntStatusReg",
                "fifoInStatusReg", "fifoOutStatusReg"}

InitCommon ==
  /\ smcPCIState = [r \in SmcRegNames |->
                      IF r = "uartStatusReg" THEN U32(UART_STATUS_EMPTY) ELSE ZeroWord]
  /\ fifoDataBuffer = ZeroBuffer
  /\ fifoBufferPos = 0
  /\ hanaState = NoHana
  /\ uartSetupNeeded = TRUE
  /\ pciConfigSpace = <<>>
  /\ pciDevSizes = <<256, 0, 0, 0, 0, 0>>
  /\ smcPc = "start"
  /\ noResponse = FALSE
  /\ timerStart = 0
  /\ timerNow = 0
  /\ smcThreadRunning = TRUE
  /\ XeRunning = TRUE
  /\ pciBridgeState = BridgeInit
  /\ pciBridgeConfig = <<>>
  /\ connectedPCIDevices = <<>>
  /\ busFault = FALSE
  /\ XePaused = FALSE
  /\ XeShutdonSignaled = FALSE
  /\ hupflag = 0
  /\ handlers = <<>>
  /\ mainPc = "loop"
  /\ procExit = "none"
  /\ shutdowns = <<>>
  /\ now = 0
  /\ gPc = <<"idle", 0>>
  /\ gMsg = ZeroBuffer
  /\ gSent = 0
  /\ lastRead = <<>>
  /\ ev = NoEv
  /\ respReady = FALSE
  /\ iter = IterInit
  /\ clockAcked = FALSE
  /\ armedAt = -1
  /\ lastTick = [n |-> 0, at |-> -1, timer |-> -1, armed |-> -1]
  /\ startedAt = -1
  /\ busyStored = FALSE
  /\ oob = FALSE
  /\ hanaAsked = <<>>
  /\ guestFollows = TRUE

\* the configured core state: power-on reason, AV pack, tray, console revision
CoreMenu ==
  [powerOnReason : {17}, avPack : {31}, trayState : {SMC_TRAY_CLOSED},
   revision : {"Xenon"}]

Init ==
  /\ InitCommon
  /\ smcCore \in CoreMenu

(***************************************************************************)
(* A guest that is free to store anything in the FIFO registers            *)
(***************************************************************************)
GuestWrite(regOffset, data, size) ==
  GuestWriteCore(regOffset, data, size) /\ UNCHANGED guestVars

GuestMemSet(regOffset, data, size) ==
  GuestMemSetCore(regOffset, data, size) /\ UNCHANGED guestVars

GuestRead(regOffset, size) ==
  GuestReadCore(regOffset, size) /\ UNCHANGED <<guestVars, lastRead>>

AccessSizes == {1, 2, 4, 8}

\* values a free guest stores in a status or enable register
StatusMenu == {U64(FIFO_STATUS_READY), U64(FIFO_STATUS_BUSY), U64(1)}

\* message words a free guest stores in FIFO_IN_DATA
WordMenu == {<<SMC_PWRON_TYPE, 255, 255, 255>>, <<SMC_SET_FP_LEDS, 1, 2, 3>>}

FreeInStatusWrite ==
  \E data \in StatusMenu, size \in AccessSizes :
    GuestWrite(FIFO_IN_STATUS_REG, data, size)

FreeInStatusMemSet ==
  \E data \in {FIFO_STATUS_READY, FIFO_STATUS_BUSY}, size \in AccessSizes :
    GuestMemSet(FIFO_IN_STATUS_REG, data, size)

FreeOutStatusWrite == GuestWrite(FIFO_OUT_STATUS_REG, U32(FIFO_STATUS_READY), 4)

\* the first word of a message (the command); the cursor stays in the buffer
FreeDataWrite ==
  /\ fifoBufferPos = 0
  /\ \E w \in WordMenu : GuestWrite(FIFO_IN_DATA_REG, w, 4)

FreeRead ==
  /\ fifoBufferPos + 4 <= FIFO_SIZE
  /\ GuestRead(FIFO_OUT_DATA_REG, 4)

\* the clock section of the loop with the clock interrupt never enabled
SmcClockIdle ==
  /\ smcPCIState.clockIntEnabledReg # U32(CLCK_INT_ENABLED)
  /\ SmcClockEnabled

\* the SMI section of the loop with the SMI never enabled
SmcSmiIdle ==
  /\ ~LowMaskSet(smcPCIState.smiIntEnabledReg, SMI_INT_ENABLED)
  /\ SmcSmiCheck

Next ==
  \/ FreeInStatusWrite
  \/ FreeInStatusMemSet
  \/ FreeOutStatusWrite
  \/ FreeDataWrite
  \/ FreeRead
  \/ SmcStart
  \/ SmcLoop
  \/ SmcSetOutBusy
  \/ SmcSetInReady
  \/ SmcDispatch
  \/ SmcSetOutReady
  \/ SmcSmiIdle
  \/ SmcClockIdle

Spec == Init /\ [][Next]_vars

(***************************************************************************)
(* A guest that follows the FIFO protocol: poll FIFO_IN_STATUS until       *)
(* READY, write READY, four 32-bit words to FIFO_IN_DATA, write BUSY; poll *)
(* FIFO_OUT_STATUS until READY, write READY to it, read four words from    *)
(* FIFO_OUT_DATA.  gPc = <<position, word index>>.                         *)
(***************************************************************************)
\* a 16-byte message from its first bytes
Msg(bytes) == [k \in 1..FIFO_SIZE |-> IF k <= Len(bytes) THEN bytes[k] ELSE 0]

\* SMBus write of DE AD BE EF (little-endian EF BE AD DE) to HANA register 0x12,
\* and the SMBus read of that register
HanaWriteMsg == Msg(<<SMC_I2C_READ_WRITE, 96, 0, 0, 0, 0, 18, 0, 239, 190, 173, 222>>)
HanaReadMsg == Msg(<<SMC_I2C_READ_WRITE, 16, 0, 0, 0, 240, 18>>)
PwrOnMsgs == {[k \in 1..FIFO_SIZE |-> IF k = 1 THEN SMC_PWRON_TYPE ELSE 255],
              Msg(<<SMC_PWRON_TYPE, 0, 7>>),
              [k \in 1..FIFO_SIZE |-> IF k = 1 THEN SMC_PWRON_TYPE ELSE k]}
FpLedsMsg == Msg(<<SMC_SET_FP_LEDS, 1, 2, 3>>)
RebootMsg == Msg(<<SMC_SET_STANDBY, 4, 48>>)

MsgWord(m, k) == <<m[4 * k + 1], m[4 * k + 2], m[4 * k + 3], m[4 * k + 4]>>

\* polls FIFO_IN_STATUS; on READY it picks the message to send
GuestPollIn(menu, limit) ==
  /\ gPc = <<"idle", 0>>
  /\ gSent < limit
  /\ GuestReadCore(FIFO_IN_STATUS_REG, 4)
  /\ \E m \in menu :
       IF smcPCIState.fifoInStatusReg = U32(FIFO_STATUS_READY)
       THEN gPc' = <<"announce", 0>> /\ gMsg' = m
       ELSE UNCHANGED <<gPc, gMsg>>
  /\ UNCHANGED <<gSent, lastRead>>

GuestAnnounce ==
  /\ gPc = <<"announce", 0>>
  /\ GuestWriteCore(FIFO_IN_STATUS_REG, U32(FIFO_STATUS_READY), 4)
  /\ gPc' = <<"data", 0>>
  /\ UNCHANGED <<gMsg, gSent>>

GuestData ==
  /\ gPc[1] = "data"
  /\ GuestWriteCore(FIFO_IN_DATA_REG, MsgWord(gMsg, gPc[2]), 4)
  /\ gPc' = IF gPc[2] < 3 THEN <<"data", gPc[2] + 1>> ELSE <<"commit", 0>>
  /\ UNCHANGED <<gMsg, gSent>>

GuestCommit ==
  /\ gPc = <<"commit", 0>>
  /\ GuestWriteCore(FIFO_IN_STATUS_REG, U32(FIFO_STATUS_BUSY), 4)
  /\ gPc' = <<"pollOut", 0>>
  /\ gSent' = gSent + 1
  /\ UNCHANGED gMsg

GuestPollOut ==
  /\ gPc = <<"pollOut", 0>>
  /\ GuestReadCore(FIFO_OUT_STATUS_REG, 4)
  /\ gPc' = IF smcPCIState.fifoOutStatusReg = U32(FIFO_STATUS_READY)
            THEN <<"resetOut", 0>> ELSE gPc
  /\ UNCHANGED <<gMsg, gSent, lastRead>>

GuestResetOut ==
  /\ gPc = <<"resetOut", 0>>
  /\ GuestWriteCore(FIFO_OUT_STATUS_REG, U32(FIFO_STATUS_READY), 4)
  /\ gPc' = <<"read", 0>>
  /\ UNCHANGED <<gMsg, gSent>>

\* lastRead collects the 16 bytes of the response as the guest reads them
GuestReadData ==
  /\ gPc[1] = "read"
  /\ GuestReadCore(FIFO_OUT_DATA_REG, 4)
  /\ lastRead' = (IF gPc[2] = 0 THEN <<>> ELSE lastRead)
                 \o BufLoad(fifoDataBuffer, fifoBufferPos, 4)
  /\ gPc' = IF gPc[2] < 3 THEN <<"read", gPc[2] + 1>> ELSE <<"idle", 0>>
  /\ UNCHANGED <<gMsg, gSent>>

(***************************************************************************)
(* One exchange with a fairly scheduled SMC thread                         *)
(***************************************************************************)
SmcLiveStep ==
  \/ SmcStart
  \/ SmcLoop
  \/ SmcSetOutBusy
  \/ SmcSetInReady
  \/ SmcDispatch
  \/ SmcSetOutReady
  \/ SmcSmiIdle
  \/ SmcClockIdle

NextLive ==
  \/ GuestPollIn(PwrOnMsgs, 1)
  \/ GuestAnnounce
  \/ GuestData
  \/ GuestCommit
  \/ GuestPollOut
  \/ GuestResetOut
  \/ GuestReadData
  \/ SmcLiveStep

InitLive ==
  /\ InitCommon
  /\ smcCore \in [powerOnReason : {17, 18}, avPack : {31},
                  trayState : {SMC_TRAY_CLOSED}, revision : {"Xenon"}]

\* the thread runs whenever it can: it is a std::thread of its own that never
\* blocks for good (every lock it takes is released by the guest's accessors)
SpecLive == InitLive /\ [][NextLive]_vars /\ WF_vars(SmcLiveStep)

(***************************************************************************)
(* Several exchanges, with the guest switching the SMI on and off          *)
(***************************************************************************)
ProtoMsgs == {Msg(<<SMC_PWRON_TYPE, 0, 7>>), HanaWriteMsg, HanaReadMsg, FpLedsMsg}

\* values the guest stores in the SMI enable register: both bits of the mask,
\* one of them, none of them
SmiEnableMenu == {U32(SMI_INT_ENABLED), U32(4), U32(3)}

GuestSmiEnable ==
  \E data \in SmiEnableMenu :
    /\ smcPCIState.smiIntEnabledReg # data
    /\ GuestWriteCore(SMI_INT_ENABLED_REG, data, 4)
    /\ UNCHANGED guestVars

\* the guest acknowledges the SMI: it clears the pending register
GuestSmiAck ==
  /\ smcPCIState.smiIntPendingReg # U32(SMI_INT_NONE)
  /\ GuestWriteCore(SMI_INT_STATUS_REG, U32(SMI_INT_NONE), 4)
  /\ UNCHANGED guestVars

NextProto ==
  \/ GuestPollIn(ProtoMsgs, MaxMsgs)
  \/ GuestAnnounce
  \/ GuestData
  \/ GuestCommit
  \/ GuestPollOut
  \/ GuestResetOut
  \/ GuestReadData
  \/ GuestSmiEnable
  \/ GuestSmiAck
  \/ SmcStart
  \/ SmcLoop
  \/ SmcSetOutBusy
  \/ SmcSetInReady
  \/ SmcDispatch
  \/ SmcSetOutReady
  \/ SmcSmiCheck
  \/ SmcSmiRaise
  \/ SmcClockIdle

SpecProto == Init /\ [][NextProto]_vars

(***************************************************************************)
(* One exchange, the command drawn from the whole command set: every       *)
(* command that answers, SET_STANDBY with its subtypes, SET_FP_LEDS, a      *)
(* command that is only logged and IDs the switch does not know            *)
(***************************************************************************)
I2CSubOps == {3, 5, 16, 17, 32, 33, 96, 119}

AnsweringMsgs ==
  {Msg(<<c, 200, 201, 202, 203>>) :
     c \in {SMC_PWRON_TYPE, SMC_QUERY_RTC, SMC_QUERY_TEMP_SENS, SMC_QUERY_TRAY_STATE,
            SMC_QUERY_AVPACK, SMC_QUERY_VERSION}}
  \cup {Msg(<<SMC_I2C_READ_WRITE, sub, 0, 0, 0, 240, 18, 0, 239, 190, 173, 222>>) :
          sub \in I2CSubOps}
  \cup {Msg(<<SMC_I2C_READ_WRITE, 16, 0, 141, 0, 0, 2>>)}

StandbyMsgs ==
  {Msg(<<SMC_SET_STANDBY, 1, 48>>), RebootMsg, Msg(<<SMC_SET_STANDBY, 4, 17>>),
   Msg(<<SMC_SET_STANDBY, 2, 48>>), Msg(<<SMC_SET_STANDBY, 0, 48>>)}

\* byte 0 is no case label of the switch
UnknownIds == {0, 238, 255}

UnknownMsgs == {[k \in 1..FIFO_SIZE |-> IF k = 1 THEN c ELSE 16 + k] : c \in UnknownIds}

CmdMsgs == AnsweringMsgs \cup StandbyMsgs \cup UnknownMsgs \cup {FpLedsMsg}

NextCmd ==
  \/ GuestPollIn(CmdMsgs, 1)
  \/ GuestAnnounce
  \/ GuestData
  \/ GuestCommit
  \/ GuestPollOut
  \/ GuestResetOut
  \/ GuestReadData
  \/ GuestSmiEnable
  \/ GuestSmiAck
  \/ SmcStart
  \/ SmcLoop
  \/ SmcSetOutBusy
  \/ SmcSetInReady
  \/ SmcDispatch
  \/ SmcReboot
  \/ SmcSetOutReady
  \/ SmcSmiCheck
  \/ SmcSmiRaise
  \/ SmcClockIdle

SpecCmd == Init /\ [][NextCmd]_vars

(***************************************************************************)
(* The bridge on its own: the guest programs priority registers, devices   *)
(* route interrupts                                                        *)
(***************************************************************************)
\* words the guest stores in a priority register:
\*   0x00800200 enabled, target CPU 2       0x00000100 disabled, target CPU 1
\*   0x00A00305 enabled and latched, target CPU 3, IRQ 5
PrioWordMenu == {U32(8389120), U32(256), U32(10486533)}

\* the targetCPU argument of RouteInterrupt; 0xFF is its default
TargetCpuMenu == {1, 2, 255}

BridgeWriteStep ==
  \E off \in {16, 28, 68}, data \in PrioWordMenu :
    GuestBridgeWrite(off, data, 4)

\* a device calls pciBridge->RouteInterrupt(prio, targetCPU); ev keeps the call
\* and the IIC calls it led to
BridgeRouteStep ==
  \E prio \in Sources, targetCPU \in TargetCpuMenu :
    /\ ev' = << <<"RouteInterrupt", prio, targetCPU>> >>
               \o RouteInterrupt(pciBridgeState, prio, targetCPU)
    /\ UNCHANGED <<smcDevVars, hanaState, smcCore, lifeVars, busVars, cfgVars, thrVars, runVars,
                   pciBridgeState, now, guestVars, lastRead, histVars>>

\* a device calls pciBridge->CancelInterrupt(prio)
BridgeCancelStep ==
  \E prio \in Sources :
    /\ ev' = << <<"CancelInterrupt", prio>> >> \o CancelInterrupt(pciBridgeState, prio)
    /\ UNCHANGED <<smcDevVars, hanaState, smcCore, lifeVars, busVars, cfgVars, thrVars, runVars,
                   pciBridgeState, now, guestVars, lastRead, histVars>>

NextBridge ==
  \/ BridgeWriteStep
  \/ BridgeRouteStep
  \/ BridgeCancelStep

SpecBridge == Init /\ [][NextBridge]_vars

(***************************************************************************)
(* A guest that programs the priority registers and reads them back.  ev   *)
(* keeps the write and the register file it found.                         *)
(***************************************************************************)
PrioOffsets == {16, 20, 24, 28, 32, 36, 40, 44, 56, 60, 64, 68}

PrioWriteStep ==
  /\ gSent < MaxPrioWrites
  /\ \E off \in PrioOffsets, data \in PrioWordMenu :
       /\ pciBridgeState' = BridgeStore(pciBridgeState, off, data, 4)
       /\ ev' = << <<"BridgeWrite", off, data, pciBridgeState>> >>
       /\ gPc' = <<"wrote", off>>
       /\ gMsg' = data
  /\ gSent' = gSent + 1
  /\ UNCHANGED <<smcDevVars, hanaState, smcCore, lifeVars, busVars, cfgVars, thrVars, runVars,
                 now, lastRead, histVars>>

PrioReadStep ==
  /\ gPc[1] = "wrote"
  /\ lastRead' = BridgeLoad(pciBridgeState, gPc[2], 4, ReadBackPrior)
  /\ gPc' = <<"readBack", gPc[2]>>
  /\ UNCHANGED <<smcDevVars, hanaState, smcCore, lifeVars, busVars, cfgVars, thrVars, runVars,
                 pciBridgeState, now, gMsg, gSent, ev, histVars>>

NextPrio ==
  \/ PrioWriteStep
  \/ PrioReadStep

SpecPrio == Init /\ [][NextPrio]_vars

(***************************************************************************)
(* The bus: devices are attached and reset, and the guest's configuration  *)
(* and memory accesses go through the bridge.  ev keeps the access, the    *)
(* value PCIBridge returned and the bus as the access found it, then the   *)
(* device calls made.                                                      *)
(***************************************************************************)
DeviceMenu == {TheSMC, [name |-> "SMC", id |-> 2], [name |-> "XMA", id |-> 1],
               [name |-> "XMA", id |-> 2], [name |-> "HDD", id |-> 1], NullDevice}

ConfigAddrMenu ==
  [busNum : {0, 1}, devNum : {0, 3, 4, 10}, functNum : {0, 1, 2}, regOffset : {16}]

\* an interrupt-priority register, FIFO_IN_STATUS behind a BAR0 of 0xEA010000,
\* and the same register behind 0xEA020000 where no BAR points
BusAddrMenu == {28, 65536 + FIFO_IN_STATUS_REG, 131072 + FIFO_IN_STATUS_REG}

\* 0xEA010000, 0x00800200
BusWordMenu == {<<0, 0, 1, 234>>, U32(8389120)}

BusAddStep ==
  /\ ~busFault
  /\ \E device \in DeviceMenu :
       /\ connectedPCIDevices' = AddPCIDevice(connectedPCIDevices, device)
       /\ ev' = << <<"AddPCIDevice", device, TRUE, BusNow>> >>
  /\ UNCHANGED <<smcDevVars, hanaState, smcCore, lifeVars, pciBridgeConfig, busFault, cfgVars,
                 thrVars, runVars, pciBridgeState, now, guestVars, lastRead, histVars>>

BusResetStep ==
  /\ ~busFault
  /\ \E device \in DeviceMenu :
       \E out \in ResetPCIDevice(connectedPCIDevices, device) :
         /\ connectedPCIDevices' = out.cat
         /\ busFault' = out.fault
         /\ ev' = << <<"ResetPCIDevice", device, ~out.fault, BusNow>> >>
  /\ UNCHANGED <<smcDevVars, hanaState, smcCore, lifeVars, pciBridgeConfig, cfgVars,
                 thrVars, runVars, pciBridgeState, now, guestVars, lastRead, histVars>>

BusConfigReadStep ==
  /\ ~busFault
  /\ \E a \in ConfigAddrMenu :
       LET r == PCIBridge_ConfigRead(BusNow, a, 4, ReadBackPrior) IN
         /\ lastRead' = r.data
         /\ ev' = << <<"ConfigRead", a, r.ok>> >> \o r.calls
  /\ UNCHANGED <<smcDevVars, hanaState, smcCore, lifeVars, busVars, cfgVars, thrVars, runVars,
                 pciBridgeState, now, guestVars, histVars>>

BusConfigWrite(a, data) ==
  LET r == PCIBridge_ConfigWrite(BusNow, a, data, 4) IN
    /\ ~busFault
    /\ pciBridgeConfig' = r.bridgeCfg
    /\ pciConfigSpace' = r.smcCfg
    /\ ev' = << <<"ConfigWrite", a, r.ok, BusNow>> >> \o r.calls
    /\ UNCHANGED <<smcDevVars, hanaState, smcCore, lifeVars, connectedPCIDevices, busFault,
                   pciDevSizes, thrVars, runVars, pciBridgeState, now, guestVars,
                   lastRead, histVars>>

BusConfigWriteStep ==
  \E a \in ConfigAddrMenu, data \in BusWordMenu : BusConfigWrite(a, data)

\* the guest programs BAR0 of the SMC
BusProgramBarStep ==
  \E data \in BusWordMenu :
    BusConfigWrite([busNum |-> 0, devNum |-> 10, functNum |-> 0, regOffset |-> 16], data)

BusReadStep ==
  /\ ~busFault
  /\ \E addr \in BusAddrMenu :
       LET r == PCIBridge_Read(BusNow, addr, 4, ReadBackPrior) IN
         /\ lastRead' = r.data
         /\ SetDev(r.smc)
         /\ ev' = << <<"Read", addr, r.ok>> >> \o r.calls
  /\ UNCHANGED <<hanaState, smcCore, lifeVars, busVars, cfgVars, thrVars, runVars,
                 pciBridgeState, now, guestVars, respReady, iter, clockAcked, armedAt,
                 lastTick, hanaAsked, guestFollows, startedAt, busyStored>>

\* what a store through the bridge leaves behind
BusStored(op, addr, r) ==
  /\ pciBridgeState' = r.bridge
  /\ SetDev(r.smc)
  /\ IF r.calls # <<>> THEN GuestStoreHist(addr % 256, r.smc)
     ELSE UNCHANGED <<respReady, clockAcked, armedAt, guestFollows, busyStored>>
  /\ ev' = << <<op, addr, r.ok, BusNow>> >> \o r.calls
  /\ UNCHANGED <<hanaState, smcCore, lifeVars, busVars, cfgVars, thrVars, runVars, now,
                 guestVars, lastRead, iter, lastTick, hanaAsked, startedAt>>

BusWriteStep ==
  /\ ~busFault
  /\ \E addr \in BusAddrMenu, data \in BusWordMenu :
       BusStored("Write", addr, PCIBridge_Store(BusNow, addr, data, 4, TRUE))

BusMemSetStep ==
  /\ ~busFault
  /\ \E addr \in BusAddrMenu :
       BusStored("MemSet", addr, PCIBridge_Store(BusNow, addr, <<1, 1, 1, 1>>, 4, FALSE))

\* devices come and go
NextCatalog ==
  \/ BusAddStep
  \/ BusResetStep

SpecCatalog == Init /\ [][NextCatalog]_vars

\* configuration accesses through the bridge
NextBusCfg ==
  \/ BusAddStep
  \/ BusConfigReadStep
  \/ BusConfigWriteStep

SpecBusCfg == Init /\ [][NextBusCfg]_vars

\* memory accesses through the bridge
NextBusMem ==
  \/ BusAddStep
  \/ BusProgramBarStep
  \/ BusReadStep
  \/ BusWriteStep
  \/ BusMemSetStep

SpecBusMem == Init /\ [][NextBusMem]_vars

(***************************************************************************)
(* The SMC's configuration space on its own                                *)
(***************************************************************************)
\* BAR0, BAR1, offset 0x2C (no size is declared behind BAR5) and the
\* expansion ROM
CfgOffsetMenu == {16, 20, 44, 48}

\* the accesses the guest makes: <<offset, size>>
CfgAccessMenu == {<<off, 4>> : off \in CfgOffsetMenu} \cup {<<16, 2>>}

\* 0xFFFFFFFF, 0xEA001000, 0x12345678
CfgWordMenu == {AllOnes32, <<0, 16, 0, 234>>, <<120, 86, 52, 18>>}

\* ev keeps the access: what was written where
CfgWriteStep ==
  \E acc \in CfgAccessMenu, data \in CfgWordMenu :
    \E any \in IF (acc[1] - 16) \div 4 < BAR_COUNT THEN {0} ELSE {0, 256} :
      /\ pciConfigSpace' = SMC_ConfigWrite(pciConfigSpace, pciDevSizes, acc[1], data,
                                           acc[2], any)
      /\ ev' = << <<"ConfigWrite", acc[1], data, acc[2]>> >>
      /\ UNCHANGED <<smcDevVars, hanaState, smcCore, lifeVars, busVars, pciDevSizes, thrVars, runVars,
                     pciBridgeState, now, guestVars, lastRead, histVars>>

CfgReadStep ==
  \E off \in CfgOffsetMenu :
    /\ lastRead' = SMC_ConfigRead(pciConfigSpace, off, 4)
    /\ ev' = << <<"ConfigRead", off, 4>> >>
    /\ UNCHANGED <<smcDevVars, hanaState, smcCore, lifeVars, busVars, cfgVars, thrVars, runVars,
                   pciBridgeState, now, guestVars, histVars>>

NextCfg ==
  \/ CfgWriteStep
  \/ CfgReadStep

SpecCfg == Init /\ [][NextCfg]_vars

(***************************************************************************)
(* The clock interrupt: time passes, the guest arms and acknowledges       *)
(***************************************************************************)
Advance ==
  /\ now < MaxQuanta * TimeQuantum
  /\ now' = now + TimeQuantum
  /\ ev' = <<>>
  /\ UNCHANGED <<smcDevVars, hanaState, smcCore, lifeVars, busVars, cfgVars, thrVars, runVars,
                 pciBridgeState, guestVars, lastRead, histVars>>

\* the guest switches the clock interrupt on or off
GuestClockEnable ==
  \E data \in {U32(CLCK_INT_ENABLED), ZeroWord} :
    /\ smcPCIState.clockIntEnabledReg # data
    /\ GuestWriteCore(CLCK_INT_ENABLED_REG, data, 4)
    /\ UNCHANGED guestVars

\* the guest acknowledges a tick (or arms the first one): it writes READY
GuestClockAck ==
  /\ smcPCIState.clockIntStatusReg # U32(CLCK_INT_READY)
  /\ GuestWriteCore(CLCK_INT_STATUS_REG, U32(CLCK_INT_READY), 4)
  /\ UNCHANGED guestVars

\* the FIFO section of the loop with no message pending
SmcFifoIdle ==
  /\ smcPCIState.fifoInStatusReg # U32(FIFO_STATUS_BUSY)
  /\ SmcLoop

NextClock ==
  \/ Advance
  \/ GuestClockEnable
  \/ GuestClockAck
  \/ SmcStart
  \/ SmcFifoIdle
  \/ SmcClockEnabled
  \/ SmcClockStatus
  \/ SmcClockStamp
  \/ SmcClockRaise

SpecClock == Init /\ [][NextClock]_vars

(***************************************************************************)
(* A guest that writes a 32-bit word to a register and reads it back       *)
(* before the SMC thread takes another step.  gPc = <<position, offset>>,  *)
(* gMsg is the word written.                                               *)
(***************************************************************************)
\* the registers SMC::Write stores the guest's word in
WritableRegs == {UART_CONFIG_REG, SMI_INT_STATUS_REG, SMI_INT_ACK_REG,
                 SMI_INT_ENABLED_REG, CLCK_INT_ENABLED_REG, CLCK_INT_STATUS_REG,
                 FIFO_IN_STATUS_REG, FIFO_OUT_STATUS_REG}

\* 0x12345678, FIFO_STATUS_BUSY, SMI_INT_ENABLED
ReadBackWords == {<<120, 86, 52, 18>>, U32(FIFO_STATUS_BUSY), U32(SMI_INT_ENABLED)}

ReadBackWrite ==
  /\ gPc[1] \in {"idle", "readBack"}
  /\ gSent < MaxReadBacks
  /\ \E off \in WritableRegs, x \in ReadBackWords :
       /\ GuestWriteCore(off, x, 4)
       /\ gPc' = <<"wrote", off>>
       /\ gMsg' = x
  /\ gSent' = gSent + 1

ReadBackRead ==
  /\ gPc[1] = "wrote"
  /\ LET r == SMC_Read(Dev, gPc[2], 4, ReadBackPrior, 0, FALSE, 0) IN
       /\ SetDev(r.d)
       /\ lastRead' = r.data
  /\ gPc' = <<"readBack", gPc[2]>>
  /\ ev' = NoEv
  /\ UNCHANGED <<hanaState, smcCore, lifeVars, busVars, cfgVars, thrVars, runVars, pciBridgeState,
                 now, gMsg, gSent, respReady, iter, clockAcked, armedAt, lastTick,
                 hanaAsked, guestFollows, startedAt, busyStored>>

\* the SMC thread runs between the guest's write-read pairs
ReadBackSmc(step) == gPc[1] # "wrote" /\ step

NextReadBack ==
  \/ ReadBackWrite
  \/ ReadBackRead
  \/ ReadBackSmc(SmcStart)
  \/ ReadBackSmc(SmcLoop)
  \/ ReadBackSmc(SmcSetOutBusy)
  \/ ReadBackSmc(SmcSetInReady)
  \/ ReadBackSmc(SmcDispatch)
  \/ ReadBackSmc(SmcSetOutReady)
  \/ ReadBackSmc(SmcSmiCheck)
  \/ ReadBackSmc(SmcSmiRaise)
  \/ ReadBackSmc(SmcClockIdle)

SpecReadBack == Init /\ [][NextReadBack]_vars

(***************************************************************************)
(* A guest that uses the two FIFO directions in any order, beside the SMC  *)
(* thread.  gPc = <<the guest's last access, its number>>.                 *)
(***************************************************************************)
FifoOp(op) ==
  /\ gSent < MaxFifoOps
  /\ gSent' = gSent + 1
  /\ gPc' = <<op, gSent + 1>>
  /\ gMsg' = gMsg

FifoAnnounce ==
  /\ FifoOp("announce")
  /\ GuestWriteCore(FIFO_IN_STATUS_REG, U32(FIFO_STATUS_READY), 4)

FifoData ==
  /\ FifoOp("data")
  /\ fifoBufferPos + 4 <= FIFO_SIZE
  /\ \E w \in WordMenu : GuestWriteCore(FIFO_IN_DATA_REG, w, 4)

FifoCommit ==
  /\ FifoOp("commit")
  /\ GuestWriteCore(FIFO_IN_STATUS_REG, U32(FIFO_STATUS_BUSY), 4)

FifoOutReset ==
  /\ FifoOp("outReset")
  /\ GuestWriteCore(FIFO_OUT_STATUS_REG, U32(FIFO_STATUS_READY), 4)

FifoOutRead ==
  /\ FifoOp("outRead")
  /\ fifoBufferPos + 4 <= FIFO_SIZE
  /\ GuestReadCore(FIFO_OUT_DATA_REG, 4)
  /\ lastRead' = SMC_Read(Dev, FIFO_OUT_DATA_REG, 4, ReadBackPrior, 0, FALSE, 0).data

NextFifo ==
  \/ FifoAnnounce
  \/ FifoData
  \/ FifoCommit
  \/ FifoOutReset
  \/ FifoOutRead
  \/ SmcStart
  \/ SmcLoop
  \/ SmcSetOutBusy
  \/ SmcSetInReady
  \/ SmcDispatch
  \/ SmcSetOutReady
  \/ SmcSmiIdle
  \/ SmcClockIdle

SpecFifo == Init /\ [][NextFifo]_vars

(***************************************************************************)
(* Process lifecycle: globalShutdownHandler, main() and the other writers  *)
(* of the global flags.  Every termination signal starts a run of the      *)
(* handler; runs overlap (a console control thread per event, or a second  *)
(* signal delivered while the first handler sleeps).  Base::exit and       *)
(* Base::fexit end the process; XeMain::Shutdown sets XeShutdonSignaled.    *)
(***************************************************************************)
nonLifeVars == <<smcDevVars, hanaState, smcCore, busVars, cfgVars, thrVars,
                 smcThreadRunning, pciBridgeState, guestVars, lastRead, histVars>>

Alive == procExit = "none"

HandlerOnMain == \E i \in DOMAIN handlers : handlers[i].onMain /\ handlers[i].pc # "returned"

\* a termination signal is delivered: the handler starts, on the main thread
\* or on another one
SignalArrives ==
  /\ Alive
  /\ Len(handlers) < MaxSignals
  /\ \E m \in BOOLEAN :
       /\ m => (~HandlerOnMain /\ mainPc # "returned")
       /\ handlers' = Append(handlers, [pc |-> "entry", wake |-> -1, onMain |-> m])
  /\ ev' = NoEv
  /\ UNCHANGED <<nonLifeVars, XeRunning, now, XePaused, XeShutdonSignaled, hupflag,
                 mainPc, procExit, shutdowns>>

\* if (XePaused) return Base::exit(-1);
M_HandlerEntryNoPauseTest(i) ==
  /\ Alive
  /\ handlers[i].pc = "entry"
  /\ handlers' = [handlers EXCEPT ![i].pc = "hup"]
  /\ ev' = NoEv
  /\ UNCHANGED <<nonLifeVars, XeRunning, now, XePaused, XeShutdonSignaled, hupflag,
                 mainPc, procExit, shutdowns>>

HandlerEntry(i) ==
  /\ Alive
  /\ handlers[i].pc = "entry"
  /\ IF XePaused
     THEN /\ procExit' = "exit"
          /\ ev' = << <<"Base::exit", i>> >>
          /\ UNCHANGED handlers
     ELSE /\ handlers' = [handlers EXCEPT ![i].pc = "hup"]
          /\ ev' = NoEv
          /\ UNCHANGED procExit
  /\ UNCHANGED <<nonLifeVars, XeRunning, now, XePaused, XeShutdonSignaled, hupflag,
                 mainPc, shutdowns>>

\* if (!hupflag) ... else return Base::fexit(-1);
M_HupTestNeverForces(flag) == TRUE

HupTest(flag) == flag = 0

HandlerHup(i) ==
  /\ Alive
  /\ handlers[i].pc = "hup"
  /\ IF HupTest(hupflag)
     THEN /\ handlers' = [handlers EXCEPT ![i].pc = "setHup"]
          /\ ev' = NoEv
          /\ UNCHANGED procExit
     ELSE /\ procExit' = "fexit"
          /\ ev' = << <<"Base::fexit", i>> >>
          /\ UNCHANGED handlers
  /\ UNCHANGED <<nonLifeVars, XeRunning, now, XePaused, XeShutdonSignaled, hupflag,
                 mainPc, shutdowns>>

\* hupflag = 1;
HandlerSetHup(i) ==
  /\ Alive
  /\ handlers[i].pc = "setHup"
  /\ hupflag' = 1
  /\ handlers' = [handlers EXCEPT ![i].pc = "setRunning"]
  /\ ev' = NoEv
  /\ UNCHANGED <<nonLifeVars, XeRunning, now, XePaused, XeShutdonSignaled,
                 mainPc, procExit, shutdowns>>

\* XeRunning = false; std::this_thread::sleep_for(15s) begins
M_HandlerSetRunningToggles(i) ==
  /\ Alive
  /\ handlers[i].pc = "setRunning"
  /\ XeRunning' = ~XeRunning
  /\ handlers' = [handlers EXCEPT ![i].pc = "sleep", ![i].wake = now + HANDLER_WAIT_MS]
  /\ ev' = NoEv
  /\ UNCHANGED <<nonLifeVars, now, XePaused, XeShutdonSignaled, hupflag,
                 mainPc, procExit, shutdowns>>

HandlerSetRunning(i) ==
  /\ Alive
  /\ handlers[i].pc = "setRunning"
  /\ XeRunning' = FALSE
  /\ handlers' = [handlers EXCEPT ![i].pc = "sleep", ![i].wake = now + HANDLER_WAIT_MS]
  /\ ev' = NoEv
  /\ UNCHANGED <<nonLifeVars, now, XePaused, XeShutdonSignaled, hupflag,
                 mainPc, procExit, shutdowns>>

\* the wait is over: if (XeShutdonSignaled) return Base::exit(-1);
\* else XeMain::Shutdown() is next
HandlerWake(i) ==
  /\ Alive
  /\ handlers[i].pc = "sleep"
  /\ now >= handlers[i].wake
  /\ IF XeShutdonSignaled
     THEN /\ procExit' = "exit"
          /\ ev' = << <<"Base::exit", i>> >>
          /\ UNCHANGED handlers
     ELSE /\ handlers' = [handlers EXCEPT ![i].pc = "shutdown"]
          /\ ev' = NoEv
          /\ UNCHANGED procExit
  /\ UNCHANGED <<nonLifeVars, XeRunning, now, XePaused, XeShutdonSignaled, hupflag,
                 mainPc, shutdowns>>

\* XeMain::Shutdown(); return 0;
HandlerShutdown(i) ==
  /\ Alive
  /\ handlers[i].pc = "shutdown"
  /\ shutdowns' = Append(shutdowns, "handler")
  /\ XeShutdonSignaled' = TRUE
  /\ handlers' = [handlers EXCEPT ![i].pc = "returned"]
  /\ ev' = << <<"Shutdown", i>> >>
  /\ UNCHANGED <<nonLifeVars, XeRunning, now, XePaused, hupflag, mainPc, procExit>>

HandlerStep ==
  \E i \in DOMAIN handlers :
    \/ HandlerEntry(i)
    \/ HandlerHup(i)
    \/ HandlerSetHup(i)
    \/ HandlerSetRunning(i)
    \/ HandlerWake(i)
    \/ HandlerShutdown(i)

\* main(): while (XeRunning) { ...; sleep_for(100ms); } left
MainLoopExit ==
  /\ Alive
  /\ mainPc = "loop"
  /\ ~HandlerOnMain
  /\ ~XeRunning
  /\ mainPc' = "shutdown"
  /\ ev' = NoEv
  /\ UNCHANGED <<nonLifeVars, XeRunning, now, XePaused, XeShutdonSignaled, hupflag,
                 handlers, procExit, shutdowns>>

\* main(): XeMain::Shutdown() is entered
MainShutdown ==
  /\ Alive
  /\ mainPc = "shutdown"
  /\ ~HandlerOnMain
  /\ shutdowns' = Append(shutdowns, "main")
  /\ XeShutdonSignaled' = TRUE
  /\ mainPc' = "shutting"
  /\ ev' = << <<"Shutdown", 0>> >>
  /\ UNCHANGED <<nonLifeVars, XeRunning, now, XePaused, hupflag, handlers, procExit>>

\* main(): XeMain::Shutdown() has returned; return 0 ends the process
MainReturn ==
  /\ Alive
  /\ mainPc = "shutting"
  /\ ~HandlerOnMain
  /\ mainPc' = "returned"
  /\ procExit' = "returned"
  /\ ev' = NoEv
  /\ UNCHANGED <<nonLifeVars, XeRunning, now, XePaused, XeShutdonSignaled, hupflag,
                 handlers, shutdowns>>

\* Base::SystemPause(): XePaused = true
SystemPause ==
  /\ Alive
  /\ ~XePaused
  /\ XePaused' = TRUE
  /\ ev' = NoEv
  /\ UNCHANGED <<nonLifeVars, XeRunning, now, XeShutdonSignaled, hupflag, handlers,
                 mainPc, procExit, shutdowns>>

\* the renderer's quit event: XeRunning = false
RendererQuit ==
  /\ Alive
  /\ XeRunning
  /\ XeRunning' = FALSE
  /\ ev' = NoEv
  /\ UNCHANGED <<nonLifeVars, now, lifeVars>>

LifeAdvance ==
  /\ Alive
  /\ now < WaitQuantum * MaxWaitQuanta
  /\ now' = now + WaitQuantum
  /\ ev' = NoEv
  /\ UNCHANGED <<nonLifeVars, XeRunning, lifeVars>>

NextLife ==
  \/ SignalArrives
  \/ HandlerStep
  \/ MainLoopExit
  \/ MainShutdown
  \/ MainReturn
  \/ SystemPause
  \/ RendererQuit
  \/ LifeAdvance

SpecLife == Init /\ [][NextLife]_vars

(***************************************************************************)
(* A guest that sends message after message by the write sequence alone,   *)
(* without waiting for the responses                                       *)
(***************************************************************************)
RaceMsgs == {[k \in 1..FIFO_SIZE |-> IF k = 1 THEN SMC_PWRON_TYPE ELSE 255], FpLedsMsg}

\* the sender goes back to polling FIFO_IN_STATUS
GuestNextMessage ==
  /\ gPc = <<"pollOut", 0>>
  /\ gPc' = <<"idle", 0>>
  /\ ev' = NoEv
  /\ UNCHANGED <<smcDevVars, hanaState, smcCore, lifeVars, busVars, cfgVars, thrVars, runVars,
                 pciBridgeState, now, gMsg, gSent, lastRead, histVars>>

NextRace ==
  \/ GuestPollIn(RaceMsgs, MaxMsgs)
  \/ GuestAnnounce
  \/ GuestData
  \/ GuestCommit
  \/ GuestNextMessage
  \/ SmcLiveStep

SpecRace == Init /\ [][NextRace]_vars

(***************************************************************************)
(* The HANA image per console revision: the thread starts under each       *)
(* revision and the guest reads register 0xFE or 0x3F back over SMBus      *)
(***************************************************************************)
HanaMsgs == {Msg(<<SMC_I2C_READ_WRITE, 16, 0, 0, 0, 240, 254>>),
             Msg(<<SMC_I2C_READ_WRITE, 16, 0, 0, 0, 240, 63>>)}

InitHana ==
  /\ InitCommon
  /\ smcCore \in [powerOnReason : {17}, avPack : {31}, trayState : {SMC_TRAY_CLOSED},
                  revision : Revisions]

NextHana ==
  \/ GuestPollIn(HanaMsgs, 1)
  \/ GuestAnnounce
  \/ GuestData
  \/ GuestCommit
  \/ GuestPollOut
  \/ GuestResetOut
  \/ GuestReadData
  \/ SmcLiveStep

SpecHana == InitHana /\ [][NextHana]_vars

(***************************************************************************)
(* Accesses at offsets that are no register of the device: the SMC and the *)
(* bridge's own window.  gPc = <<the guest's last access, its offset>>; a   *)
(* read starts from a destination buffer that holds zeroes or 0xAA.        *)
(***************************************************************************)
OddSmcOffsets == {0, 32, 252}
OddBridgeOffsets == {8, 48, 256}
PriorMenu == {ZeroWord, ReadBackPrior}

OddOp(op, off) ==
  /\ gSent < MaxOddOps
  /\ gSent' = gSent + 1
  /\ gPc' = <<op, off>>
  /\ gMsg' = gMsg

\* the guest programs registers that exist
OddSmcSetup ==
  \E off \in {SMI_INT_ENABLED_REG, FIFO_IN_DATA_REG}, x \in ReadBackWords :
    /\ OddOp("setup", off)
    /\ GuestWriteCore(off, x, 4)

OddBridgeSetup ==
  \E off \in {12, 28}, x \in PrioWordMenu :
    /\ OddOp("setup", off)
    /\ pciBridgeState' = BridgeStore(pciBridgeState, off, x, 4)
    /\ ev' = NoEv
    /\ UNCHANGED <<smcDevVars, hanaState, smcCore, lifeVars, busVars, cfgVars, thrVars, runVars,
                   now, lastRead, histVars>>

OddSmcRead ==
  \E off \in OddSmcOffsets, prior \in PriorMenu :
    /\ OddOp("smcRead", off)
    /\ LET r == SMC_Read(Dev, off, 4, prior, 0, FALSE, 0) IN
         /\ SetDev(r.d)
         /\ lastRead' = r.data
    /\ ev' = NoEv
    /\ UNCHANGED <<hanaState, smcCore, lifeVars, busVars, cfgVars, thrVars, runVars, pciBridgeState,
                   now, respReady, iter, clockAcked, armedAt, lastTick,
                   hanaAsked, guestFollows, startedAt, busyStored>>

OddSmcWrite ==
  \E off \in OddSmcOffsets, x \in ReadBackWords :
    /\ OddOp("smcWrite", off)
    /\ GuestWriteCore(off, x, 4)

OddSmcMemSet ==
  \E off \in OddSmcOffsets :
    /\ OddOp("smcMemSet", off)
    /\ GuestMemSetCore(off, 4, 4)

OddBridgeRead ==
  \E off \in OddBridgeOffsets, prior \in PriorMenu :
    /\ OddOp("bridgeRead", off)
    /\ lastRead' = BridgeLoad(pciBridgeState, off, 4, prior)
    /\ ev' = NoEv
    /\ UNCHANGED <<smcDevVars, hanaState, smcCore, lifeVars, busVars, cfgVars, thrVars, runVars,
                   pciBridgeState, now, histVars>>

\* PCIBridge::Write and PCIBridge::MemSet (the byte 0x80 four times)
OddBridgeStore ==
  \E off \in OddBridgeOffsets, x \in PrioWordMenu \cup {<<128, 128, 128, 128>>} :
    /\ OddOp("bridgeStore", off)
    /\ pciBridgeState' = BridgeStore(pciBridgeState, off, x, 4)
    /\ ev' = NoEv
    /\ UNCHANGED <<smcDevVars, hanaState, smcCore, lifeVars, busVars, cfgVars, thrVars, runVars,
                   now, lastRead, histVars>>

NextOdd ==
  \/ OddSmcSetup
  \/ OddBridgeSetup
  \/ OddSmcRead
  \/ OddSmcWrite
  \/ OddSmcMemSet
  \/ OddBridgeRead
  \/ OddBridgeStore

SpecOdd == Init /\ [][NextOdd]_vars

(***************************************************************************)
(* The SMC thread and the writers of XeRunning: SET_STANDBY, the shutdown  *)
(* handler, the renderer.  The thread is scheduled fairly.                 *)
(***************************************************************************)
\* SMC::~SMC(): smcThreadRunning = false (the join follows)
SmcDestroy ==
  /\ smcThreadRunning
  /\ smcThreadRunning' = FALSE
  /\ ev' = NoEv
  /\ UNCHANGED <<smcDevVars, hanaState, smcCore, lifeVars, busVars, cfgVars, thrVars,
                 XeRunning, pciBridgeState, now, guestVars, lastRead, histVars>>

SmcStopStep ==
  \/ SmcStart
  \/ SmcLoop
  \/ SmcSetOutBusy
  \/ SmcSetInReady
  \/ SmcDispatch
  \/ SmcReboot
  \/ SmcSetOutReady
  \/ SmcSmiIdle
  \/ SmcClockIdle

NextStop ==
  \/ GuestPollIn(StandbyMsgs, 1)
  \/ GuestAnnounce
  \/ GuestData
  \/ GuestCommit
  \/ GuestPollOut
  \/ GuestResetOut
  \/ GuestReadData
  \/ SmcStopStep
  \/ SmcDestroy
  \/ RendererQuit
  \/ SignalArrives
  \/ HandlerStep

SpecStop == Init /\ [][NextStop]_vars /\ WF_vars(SmcStopStep)

(***************************************************************************)
(* Properties of the FIFO status registers                                 *)
(***************************************************************************)
READY == U32(FIFO_STATUS_READY)
BUSY == U32(FIFO_STATUS_BUSY)

\* the step is one of the SMC thread's (each of them moves smcPc)
SmcStepped == smcPc' # smcPc

\* FIFO_IN_STATUS is two-state after the step, and a change is READY -> BUSY
\* by the guest or BUSY -> READY by the SMC thread
InStatusTwoState ==
  /\ smcPCIState'.fifoInStatusReg \in {READY, BUSY}
  /\ smcPCIState'.fifoInStatusReg # smcPCIState.fifoInStatusReg =>
       \/ /\ smcPCIState.fifoInStatusReg = READY
          /\ smcPCIState'.fifoInStatusReg = BUSY
          /\ ~SmcStepped
       \/ /\ smcPCIState.fifoInStatusReg = BUSY
          /\ smcPCIState'.fifoInStatusReg = READY
          /\ SmcStepped

\* C1 as stated: FIFO_IN_STATUS always holds READY or BUSY and changes only
\* READY -> BUSY by a guest store and BUSY -> READY by the SMC thread, whatever
\* the guest stores at offset 0x84 (any value, any size, Write or MemSet).
C1_AnyGuestStore == [][InStatusTwoState]_vars

\* C1 amended: a change of FIFO_IN_STATUS made by the SMC thread always ends in
\* READY; and as long as every guest store to offset 0x84 leaves BUSY, or
\* READY while the register reads READY, the register holds READY or BUSY and
\* changes only READY -> BUSY by the guest and BUSY -> READY by the SMC thread.
C1_ProtocolStores ==
  [][/\ (SmcStepped /\ smcPCIState'.fifoInStatusReg # smcPCIState.fifoInStatusReg)
          => smcPCIState'.fifoInStatusReg = READY
     /\ guestFollows' => InStatusTwoState]_vars

\* C1 witness: a guest that kept to the protocol completed a message (READY ->
\* BUSY) and the SMC thread took it (BUSY -> READY) and answered
C1_Witness ==
  /\ guestFollows
  /\ iter.handled
  /\ respReady
  /\ smcPCIState.fifoInStatusReg = READY
  /\ At(fifoDataBuffer, 0) = SMC_PWRON_TYPE

\* the SMC's answer to PWRON_TYPE: the id, the configured reason, 14 zero bytes
PwrOnResponse == Msg(<<SMC_PWRON_TYPE, smcCore.powerOnReason>>)

\* C3: once the guest has written READY, four words with command PWRON_TYPE and
\* BUSY, a fairly scheduled SMC thread eventually leaves FIFO_IN_STATUS = READY,
\* FIFO_OUT_STATUS = READY and the buffer equal to {PWRON_TYPE, powerOnReason,
\* 0 x 14}, whatever bytes 1..15 of the request were.
C3_PwrOnAnswered ==
  (gPc = <<"pollOut", 0>> /\ gMsg[1] = SMC_PWRON_TYPE)
    ~> (/\ smcPCIState.fifoInStatusReg = READY
        /\ smcPCIState.fifoOutStatusReg = READY
        /\ fifoDataBuffer = PwrOnResponse)

\* C3 witness: a request whose bytes 1..15 were all 0xFF has been answered
C3_Witness ==
  /\ gMsg = [k \in 1..FIFO_SIZE |-> IF k = 1 THEN SMC_PWRON_TYPE ELSE 255]
  /\ gSent = 1
  /\ respReady
  /\ smcPCIState.fifoInStatusReg = READY
  /\ smcPCIState.fifoOutStatusReg = READY
  /\ fifoDataBuffer = PwrOnResponse

(***************************************************************************)
(* Properties of an exchange                                               *)
(***************************************************************************)
\* C2: when the guest, having completed a message by writing BUSY to
\* FIFO_IN_STATUS, reads FIFO_OUT_STATUS = READY, the SMC has answered that
\* message: it set FIFO_OUT_STATUS READY after the message was completed, so
\* the READY read is never one left over from an earlier exchange.
C2_NoStaleReady == gPc = <<"resetOut", 0>> => respReady

\* how often call c is among the calls of a step
CallCount(calls, c) ==
  Cardinality({k \in 1..Len(calls) : calls[k][1] = c[1] /\ calls[k] = c})

RouteSmm == <<"RouteInterrupt", "SMM">>

\* C6: after the SMC processed a message other than SET_FP_LEDS: if
\* smiIntEnabledReg & SMI_INT_ENABLED is nonzero when the thread tests it, the
\* thread sets smiIntPendingReg = SMI_INT_PENDING and calls
\* RouteInterrupt(SMM) exactly once, after it set FIFO_OUT_STATUS READY; if it
\* is zero, the thread makes no RouteInterrupt(SMM) call and leaves
\* smiIntPendingReg alone.
C6_SmiAfterMessage ==
  [][/\ (smcPc = "smiCheck" /\ SmcStepped /\ iter.cmd # SMC_SET_FP_LEDS) =>
          IF LowMaskSet(smcPCIState.smiIntEnabledReg, SMI_INT_ENABLED)
          THEN smcPc' = "smiRaise"
          ELSE smcPc' = "clock"
     /\ (smcPc = "smiRaise" /\ SmcStepped) =>
          /\ smcPCIState'.smiIntPendingReg = U32(SMI_INT_PENDING)
          /\ CallCount(ev', RouteSmm) = 1
          /\ iter.outReady
          /\ smcPc' = "clock"
     /\ (smcPc # "smiRaise" /\ SmcStepped) =>
          /\ CallCount(ev', RouteSmm) = 0
          /\ smcPCIState'.smiIntPendingReg = smcPCIState.smiIntPendingReg
     /\ (smcPc' = "clock" /\ iter'.handled /\ iter'.cmd # SMC_SET_FP_LEDS) =>
          iter'.smm = IF iter'.smi = "on" THEN 1 ELSE 0]_vars

\* C6 witness: with only one bit of the mask set in smiIntEnabledReg the thread
\* has answered a PWRON_TYPE message and raised the SMI once
C6_Witness ==
  /\ smcPc = "clock"
  /\ iter.handled
  /\ iter.cmd = SMC_PWRON_TYPE
  /\ iter.smi = "on"
  /\ iter.smm = 1
  /\ smcPCIState.smiIntEnabledReg = U32(4)
  /\ smcPCIState.smiIntPendingReg = U32(SMI_INT_PENDING)
  /\ smcPCIState.fifoOutStatusReg = READY

\* C9: after a message with sub-op 0x60 asked to write v to HANA register i, a
\* message with sub-op 0x10, byte5 = 0xF0 and byte6 = i is answered with v in
\* bytes 4..7, little-endian.
C9_HanaRoundTrip ==
  (/\ smcPc = "setOutReady"
   /\ iter.handled
   /\ iter.cmd = SMC_I2C_READ_WRITE
   /\ At(iter.req, 1) = 16
   /\ At(iter.req, 5) = 240
   /\ At(iter.req, 6) \in DOMAIN hanaAsked)
    => <<At(fifoDataBuffer, 4), At(fifoDataBuffer, 5),
         At(fifoDataBuffer, 6), At(fifoDataBuffer, 7)>> = hanaAsked[At(iter.req, 6)]

(***************************************************************************)
(* Properties of PCIBridge::RouteInterrupt                                 *)
(***************************************************************************)
\* the last step was a call RouteInterrupt(prio, targetCPU) on the bridge
Routed == ev # <<>> /\ ev[1][1] = "RouteInterrupt" /\ Len(ev[1]) = 3
RoutedPrio == ev[1][2]
RoutedCpu == ev[1][3]
\* the genInterrupt calls it made
Raised == Tail(ev)

\* C4 as stated: for every source, GRAPHICS and XPS included, and every
\* targetCpu, RouteInterrupt(S, targetCpu) called while intEnabled(S) is 0
\* makes no genInterrupt call.
C4_DisabledNeverRaises ==
  (Routed /\ ~pciBridgeState[RoutedPrio].intEnabled) => Raised = <<>>

\* C4 amended: for every source other than GRAPHICS and XPS and every
\* targetCpu, RouteInterrupt(S, targetCpu) called while intEnabled(S) is 0
\* makes no genInterrupt call.
C4_GatedDisabledNeverRaises ==
  (Routed /\ RoutedPrio \notin {"GRAPHICS", "XPS"}
          /\ ~pciBridgeState[RoutedPrio].intEnabled) => Raised = <<>>

\* C4 witness: the guest wrote a disabling word to the clock's priority
\* register and a RouteInterrupt(CLOCK, 2) made no IIC call
C4_Witness ==
  /\ Routed
  /\ RoutedPrio = "CLOCK"
  /\ RoutedCpu = 2
  /\ pciBridgeState["CLOCK"].hexData = U32(256)
  /\ ~pciBridgeState["CLOCK"].intEnabled
  /\ Raised = <<>>

\* C5: RouteInterrupt(GRAPHICS, 0xFF) and RouteInterrupt(XPS, 0xFF) make no
\* genInterrupt call; with any other targetCpu the call makes exactly one, for
\* that source, on the targetCpu the caller gave.
C5_GraphicsUsesCallerCpu ==
  (Routed /\ RoutedPrio \in {"GRAPHICS", "XPS"}) =>
     IF RoutedCpu = 255 THEN Raised = <<>>
     ELSE Raised = << <<"genInterrupt", RoutedPrio, RoutedCpu>> >>

\* C5 witness: RouteInterrupt(XPS, 2) raised XPS on CPU 2
C5_Witness ==
  /\ Routed
  /\ RoutedPrio = "XPS"
  /\ RoutedCpu = 2
  /\ Raised = << <<"genInterrupt", "XPS", 2>> >>

(***************************************************************************)
(* Properties of the configuration space                                   *)
(***************************************************************************)
\* ~(s - 1) & 0xFFFFFFFC as four little-endian bytes
SizeMask(devSize) ==
  LET inv == [k \in 1..4 |-> 255 - (((devSize - 1) \div (256 ^ (k - 1))) % 256)]
  IN [inv EXCEPT ![1] = @ - (@ % 4)]

\* the last step was a 4-byte ConfigWrite to BAR k whose declared size is not 0
WroteBar == /\ ev # <<>>
            /\ ev[1][1] = "ConfigWrite"
            /\ ev[1][4] = 4
            /\ ev[1][2] \in {16 + 4 * k : k \in 0..(BAR_COUNT - 1)}
            /\ pciDevSizes[((ev[1][2] - 16) \div 4) + 1] # 0
WrittenOff == ev[1][2]
WrittenWord == ev[1][3]

\* C10: for each BAR k of the SMC with a declared size s # 0, after a 4-byte
\* ConfigWrite of 0xFFFFFFFF to BAR k ConfigRead of BAR k returns
\* ~(s-1) & 0xFFFFFFFC; after a 4-byte ConfigWrite of any other value v it
\* returns v.  The discovery yields 0xFFFFFF00 for a size of 0x100 and
\* 0xFFFFF000 for a size of 0x1000.
C10_BarDiscovery ==
  /\ WroteBar =>
       SMC_ConfigRead(pciConfigSpace, WrittenOff, 4) =
         IF WrittenWord = AllOnes32
         THEN SizeMask(pciDevSizes[((WrittenOff - 16) \div 4) + 1])
         ELSE WrittenWord
  /\ SizeMask(256) = <<0, 255, 255, 255>>
  /\ BarDiscovery(AllOnes64, 4096) = <<0, 240, 255, 255, 0, 0, 0, 0>>

\* C10 witness: the guest has scanned BAR0 (size 0x100) and reads back
\* 0xFFFFFF00
C10_Witness ==
  /\ ev = << <<"ConfigRead", 16, 4>> >>
  /\ pciDevSizes[1] = 256
  /\ lastRead = <<0, 255, 255, 255>>

(***************************************************************************)
(* Properties of the clock interrupt                                       *)
(***************************************************************************)
RouteClock == <<"RouteInterrupt", "CLOCK">>

\* the step is the SMC thread's call of RouteInterrupt(PRIO_CLOCK)
ClockRouted == SmcStepped /\ CallCount(ev', RouteClock) > 0

\* C7: the SMC calls RouteInterrupt(CLOCK) only in a step where
\* clockIntEnabledReg == CLCK_INT_ENABLED and clockIntStatusReg ==
\* CLCK_INT_READY, that step sets clockIntStatusReg = CLCK_INT_TAKEN, and
\* between two consecutive calls the guest has written CLCK_INT_READY to the
\* status register.
C7_TickOnlyWhenArmed ==
  [][ClockRouted =>
       /\ smcPCIState.clockIntEnabledReg = U32(CLCK_INT_ENABLED)
       /\ smcPCIState.clockIntStatusReg = U32(CLCK_INT_READY)
       /\ smcPCIState'.clockIntStatusReg = U32(CLCK_INT_TAKEN)
       /\ (lastTick.n > 0 => clockAcked)]_vars

\* C8 as stated: counted from the moment the guest has the clock interrupt
\* enabled and the status READY, no RouteInterrupt(CLOCK) happens in the first
\* 400 ms, whatever time has passed since the thread started or since the
\* previous tick (and so at most one happens up to 650 ms).
C8_TickCountedFromArming ==
  [][(ClockRouted /\ armedAt # -1) => now - armedAt > 400]_vars

\* the moment the SMC thread last restarted its timer before the tick now due:
\* at its start, or right before the previous tick
TimerRestartedAt == IF lastTick.n = 0 THEN startedAt ELSE lastTick.timer

\* C8 amended: a RouteInterrupt(CLOCK) happens only when at least 500 ms have
\* passed since the SMC thread last restarted its timer (at its start, or right
\* before the previous tick); the moment the guest armed does not count.
C8_TickCountedFromTimer ==
  [][ClockRouted => now - TimerRestartedAt >= CLOCK_PERIOD_MS]_vars

\* C8 witness: a second tick has been raised, 500 ms or more after the timer
\* restart of the first, for a guest that armed the interrupt again less than
\* 400 ms before it
C8_Witness ==
  /\ ev = RouteCall(pciBridgeState, "CLOCK")
  /\ lastTick.n = 2
  /\ lastTick.at = now
  /\ lastTick.armed # -1
  /\ lastTick.at - lastTick.armed < 400
  /\ smcPCIState.clockIntStatusReg = U32(CLCK_INT_TAKEN)

(***************************************************************************)
(* Properties of the unimplemented BARs                                    *)
(***************************************************************************)
\* the offsets of the BARs the SMC declares no size for, and of the expansion
\* ROM base address
UnimplementedOffsets ==
  {16 + 4 * k : k \in {j \in 0..(BAR_COUNT - 1) : pciDevSizes[j + 1] = 0}} \cup {48}

\* C11: for every BAR k of the SMC whose declared size is 0 (BAR1..BAR5),
\* ConfigRead of BAR k returns 0 after any sequence of ConfigWrites, and so does
\* ConfigRead of the expansion-ROM register at offset 0x30.
C11_UnimplementedReadZero ==
  \A off \in UnimplementedOffsets : SMC_ConfigRead(pciConfigSpace, off, 4) = ZeroWord

(***************************************************************************)
(* Properties of register read-back                                        *)
(***************************************************************************)
\* C12: for each guest-writable SMC register (0x1C, 0x50, 0x58, 0x5C, 0x64,
\* 0x6C, 0x84, 0x94), a 32-bit Write of x followed immediately by a 32-bit Read
\* at the same offset, with no SMC-thread step in between, returns x.
C12_ReadBack ==
  (gPc[1] = "readBack" /\ gPc[2] \in WritableRegs) => lastRead = gMsg

(***************************************************************************)
(* Properties of the priority registers                                    *)
(***************************************************************************)
PrioWritten == ev # <<>> /\ ev[1][1] = "BridgeWrite"
\* the low 24 bits of the word written, as a number
PrioWord == ev[1][3][1] + 256 * ev[1][3][2] + 65536 * ev[1][3][3]

\* C13: after a 32-bit PCIBridge.Write of w to the priority register of a
\* wired source S, intEnabled(S) = (w>>23)&1, latched(S) = (w>>21)&1,
\* targetCPU(S) = (w>>8)&0x3F, cpuIRQ(S) = (w<<2)&0xFC, a following 32-bit
\* Read of the address returns w, and every other register is as it was.
C13_PrioWrite ==
  PrioWritten =>
    LET S == PrioRegSource(ev[1][2])
        before == ev[1][4]
        r == pciBridgeState[S]
    IN /\ S \in WiredSources
       /\ r.intEnabled = (((PrioWord \div Pow2(23)) % 2) = 1)
       /\ r.latched = (((PrioWord \div Pow2(21)) % 2) = 1)
       /\ r.targetCPU = (PrioWord \div 256) % 64
       /\ r.cpuIRQ = (PrioWord * 4) % 256
       /\ (gPc[1] = "readBack" => lastRead = ev[1][3])
       /\ \A n \in DOMAIN pciBridgeState \ {S} : pciBridgeState[n] = before[n]

\* C13 witness: 0x00A00305 was written to the SFCX register over an earlier
\* word and read back; SFCX is enabled, latched, on CPU 3 with IRQ 0x14
C13_Witness ==
  /\ PrioWritten
  /\ ev[1][2] = 68
  /\ ev[1][4]["SFCX"].hexData = U32(8389120)
  /\ gPc = <<"readBack", 68>>
  /\ lastRead = U32(10486533)
  /\ pciBridgeState["SFCX"] = [hexData |-> U32(10486533), intEnabled |-> TRUE,
                               latched |-> TRUE, targetCPU |-> 3, cpuIRQ |-> 20]

(***************************************************************************)
(* Properties of PCIBridge::CancelInterrupt                                *)
(***************************************************************************)
\* the last step was a call CancelInterrupt(prio) on the bridge
Cancelled == ev # <<>> /\ ev[1][1] = "CancelInterrupt"

\* the calls of RouteInterrupt with cancelInterrupt in place of genInterrupt
AsCancels(calls) == [k \in 1..Len(calls) |-> <<"cancelInterrupt", calls[k][2], calls[k][3]>>]

\* C14: for every source S, GRAPHICS and XPS included, and every bridge state,
\* CancelInterrupt(S) calls IIC.cancelInterrupt(S, cpu) in exactly the cases,
\* and with the same cpu, in which RouteInterrupt for S would call
\* IIC.genInterrupt(S, cpu).
C14_CancelSymmetric ==
  Cancelled =>
    \A targetCPU \in TargetCpuMenu :
      Tail(ev) = AsCancels(RouteInterrupt(pciBridgeState, ev[1][2], targetCPU))

(***************************************************************************)
(* Properties of the bus                                                   *)
(***************************************************************************)
\* the last step was the bus operation op
BusDid(op) == ev # <<>> /\ ev[1][1] = op
BusArg == ev[1][2]
BusOk == ev[1][3]
\* the bus as the operation found it (kept for the operations that can change it)
BusBefore == ev[1][4]
\* the device calls the operation made
DeviceCalls == Tail(ev)

\* outside the bridge's own window and in no BAR of a connected device
Unmapped(b, addr) ==
  addr > PCI_BRIDGE_BASE_END_ADDRESS /\ MappingDevices(b, addr) = {}

\* C15: for an address outside the bridge's own window that no connected
\* device maps in a BAR, PCIBridge.Read fills all size destination bytes with
\* 0xFF and returns false, and PCIBridge.Write and PCIBridge.MemSet return
\* false and change no bridge or device state.
C15_UnmappedAccess ==
  /\ (BusDid("Read") /\ Unmapped(BusNow, BusArg)) =>
       /\ lastRead = <<255, 255, 255, 255>>
       /\ ~BusOk
       /\ DeviceCalls = <<>>
  /\ ((BusDid("Write") \/ BusDid("MemSet")) /\ Unmapped(BusBefore, BusArg)) =>
       /\ ~BusOk
       /\ DeviceCalls = <<>>
       /\ BusNow = BusBefore

\* C15 witness: the SMC is attached with BAR0 programmed to 0xEA010000, and a
\* read of 0xEA020084, which it does not map, came back false with 0xFF bytes
C15_Witness ==
  /\ BusDid("Read")
  /\ BusArg = 131072 + FIFO_IN_STATUS_REG
  /\ "SMC" \in DOMAIN connectedPCIDevices
  /\ SmcMapsAddress(BusNow, 65536 + FIFO_IN_STATUS_REG)
  /\ ~BusOk
  /\ lastRead = <<255, 255, 255, 255>>

\* the configuration address is not the bridge's own, and its slot holds no
\* device: the device the tree lists there is not attached, or the tree has no
\* such devNum
NoDeviceAt(cat, a) ==
  /\ ~(a.busNum = 0 /\ a.devNum = 0)
  /\ \/ a.devNum \notin TableDevNums
     \/ /\ DeviceTable(a.devNum, a.functNum) # ""
        /\ DeviceTable(a.devNum, a.functNum) \notin DOMAIN cat

\* C16: a ConfigRead addressed to a slot with no device (a devNum of the table
\* whose device is not connected, or a devNum absent from the table) fills all
\* size destination bytes with 0xFF; a ConfigWrite to such a slot changes no
\* configuration space.
C16_EmptySlot ==
  /\ (BusDid("ConfigRead") /\ NoDeviceAt(connectedPCIDevices, BusArg)) =>
       lastRead = <<255, 255, 255, 255>>
  /\ (BusDid("ConfigWrite") /\ NoDeviceAt(BusBefore.cat, BusArg)) =>
       /\ pciBridgeConfig = BusBefore.bridgeCfg
       /\ pciConfigSpace = BusBefore.smcCfg

\* C17: configuration dispatch follows the device table exactly: an access
\* with busNum = 0 and devNum = 0 targets the bridge's own configuration space,
\* and for every other composite address a device's ConfigRead/ConfigWrite is
\* invoked only if its (devNum, funcNum) pair is listed in the table, so a pair
\* not listed (devNum 0xA with funcNum 1, devNum 0x4 with funcNum 2) reaches no
\* device.
C17_DispatchByTable ==
  (BusDid("ConfigRead") \/ BusDid("ConfigWrite")) =>
    IF BusArg.busNum = 0 /\ BusArg.devNum = 0
    THEN /\ DeviceCalls = <<>>
         /\ BusDid("ConfigRead") =>
              lastRead = [k \in 1..4 |-> BridgeCfgByte(pciBridgeConfig, BusArg.regOffset + k - 1)]
         /\ BusDid("ConfigWrite") =>
              /\ pciConfigSpace = BusBefore.smcCfg
              /\ pciBridgeConfig # BusBefore.bridgeCfg
                   => \A o \in DOMAIN pciBridgeConfig :
                        o \in BusArg.regOffset..(BusArg.regOffset + 3)
    ELSE \A k \in 1..Len(DeviceCalls) :
           /\ DeviceTable(BusArg.devNum, BusArg.functNum) # ""
           /\ DeviceCalls[k][2] = DeviceTable(BusArg.devNum, BusArg.functNum)

(***************************************************************************)
(* Properties of the device catalog                                        *)
(***************************************************************************)
\* C18: after AddPCIDevice(dev) with a non-null dev the catalog maps dev's
\* name to dev itself, also when an entry with that name was registered before
\* (the old device is replaced), and every entry under another name is
\* unchanged; names stay unique in the catalog.
C18_AddRegisters ==
  (BusDid("AddPCIDevice") /\ BusArg.id # 0) =>
    /\ DOMAIN connectedPCIDevices = DOMAIN BusBefore.cat \cup {BusArg.name}
    /\ connectedPCIDevices[BusArg.name] = BusArg.id
    /\ \A n \in DOMAIN BusBefore.cat \ {BusArg.name} :
         connectedPCIDevices[n] = BusBefore.cat[n]

\* C19: ResetPCIDevice(dev): if dev's name is registered, afterwards the
\* catalog maps that name to dev and the set of registered names is unchanged;
\* if the name is not registered, or dev is null, the catalog is left unchanged
\* and the failure is reported as an error, with no other change of state.
C19_ResetReplaces ==
  BusDid("ResetPCIDevice") =>
    IF BusArg.id # 0 /\ BusArg.name \in DOMAIN BusBefore.cat
    THEN /\ DOMAIN connectedPCIDevices = DOMAIN BusBefore.cat
         /\ connectedPCIDevices[BusArg.name] = BusArg.id
         /\ \A n \in DOMAIN BusBefore.cat \ {BusArg.name} :
              connectedPCIDevices[n] = BusBefore.cat[n]
         /\ ~busFault
    ELSE /\ connectedPCIDevices = BusBefore.cat
         /\ ~busFault

(***************************************************************************)
(* Properties of the two FIFO directions                                   *)
(***************************************************************************)
\* the step is the guest's access op
FifoDid(op) == gPc' # gPc /\ gPc'[1] = op

\* the words the next four reads of FIFO_OUT_DATA return
NextOutWords(d) ==
  LET r1 == SMC_Read(d, FIFO_OUT_DATA_REG, 4, ReadBackPrior, 0, FALSE, 0)
      r2 == SMC_Read(r1.d, FIFO_OUT_DATA_REG, 4, ReadBackPrior, 0, FALSE, 0)
      r3 == SMC_Read(r2.d, FIFO_OUT_DATA_REG, 4, ReadBackPrior, 0, FALSE, 0)
      r4 == SMC_Read(r3.d, FIFO_OUT_DATA_REG, 4, ReadBackPrior, 0, FALSE, 0)
  IN <<r1.data, r2.data, r3.data, r4.data>>

\* the bytes of the buffer the next write to FIFO_IN_DATA lands in
InLanding(d) ==
  {k \in 1..FIFO_SIZE :
     SMC_Write(d, FIFO_IN_DATA_REG, <<1, 1, 1, 1>>, 4).buf[k]
       # SMC_Write(d, FIFO_IN_DATA_REG, <<2, 2, 2, 2>>, 4).buf[k]}

\* the SMC's response is ready and a word of it is still ahead of the guest
UnreadResponse ==
  /\ respReady
  /\ smcPCIState.fifoOutStatusReg = U32(FIFO_STATUS_READY)
  /\ fifoBufferPos + 4 <= FIFO_SIZE

\* C20: the two FIFO directions are independent: guest activity on the in
\* direction (writing READY to FIFO_IN_STATUS, writes to FIFO_IN_DATA) changes
\* neither the bytes nor the read position of a response the guest has not yet
\* read from FIFO_OUT_DATA, and reads of FIFO_OUT_DATA or writes to
\* FIFO_OUT_STATUS do not change where the next FIFO_IN_DATA write lands.
C20_FifoIndependent ==
  [][/\ ((FifoDid("announce") \/ FifoDid("data")) /\ UnreadResponse) =>
          NextOutWords(Dev)' = NextOutWords(Dev)
     /\ (FifoDid("outRead") \/ FifoDid("outReset")) =>
          InLanding(Dev)' = InLanding(Dev)]_vars

(***************************************************************************)
(* SET_STANDBY, SET_FP_LEDS, unknown commands, the echoed command ID       *)
(***************************************************************************)
\* the step in which the SMC thread runs the command switch
Dispatching == smcPc = "dispatch" /\ smcPc' # "dispatch"

RebootCalls(calls) == SelectSeq(calls, LAMBDA c : c[1] = "Reboot")

StandbySub == At(iter.req, 1)

\* C21: processing SET_STANDBY, subtype 0x01 sets running = false and calls no
\* reboot; subtype 0x04 calls XeMain::Reboot exactly once, with byte 2 of the
\* message as the reason, and leaves running alone; any other subtype leaves
\* running alone and calls no reboot.  No other command calls a reboot.
C21_SetStandby ==
  [][/\ (Dispatching /\ At(fifoDataBuffer, 0) = SMC_SET_STANDBY) =>
          /\ At(fifoDataBuffer, 1) = 1 => (~XeRunning' /\ smcPc' # "reboot")
          /\ At(fifoDataBuffer, 1) = 4 => (XeRunning' = XeRunning /\ smcPc' = "reboot")
          /\ At(fifoDataBuffer, 1) \notin {1, 4} =>
               (XeRunning' = XeRunning /\ smcPc' # "reboot")
     /\ RebootCalls(ev') # <<>> =>
          /\ iter.cmd = SMC_SET_STANDBY /\ StandbySub = 4
          /\ iter.reboots = <<>>
          /\ RebootCalls(ev') = << <<"Reboot", At(iter.req, 2)>> >>
          /\ XeRunning' = XeRunning
     /\ (smcPc = "setOutReady" /\ smcPc' # "setOutReady") =>
          Len(iter.reboots) = IF iter.cmd = SMC_SET_STANDBY /\ StandbySub = 4
                              THEN 1 ELSE 0]_vars

C21_Witness ==
  /\ iter.outReady
  /\ iter.cmd = SMC_SET_STANDBY
  /\ StandbySub = 4
  /\ iter.reboots = <<At(iter.req, 2)>>
  /\ At(iter.req, 2) = 48
  /\ XeRunning

SmmCalls(calls) == SelectSeq(calls, LAMBDA c : c = <<"RouteInterrupt", "SMM">>)

FpLedsInHand == iter.handled /\ iter.cmd = SMC_SET_FP_LEDS

\* C22: while the SMC thread works on a SET_FP_LEDS message it never sets
\* smiIntPendingReg and never calls RouteInterrupt(SMM), whatever the guest has
\* stored in smiIntEnabledReg.
C22_FpLedsSilent ==
  [][FpLedsInHand =>
       /\ smcPCIState'.smiIntPendingReg = smcPCIState.smiIntPendingReg
       /\ SmmCalls(ev') = <<>>
       /\ smcPc' # "smiRaise"
       /\ iter.smm = 0]_vars

\* the thread's test found a bit of the enable mask set and raised nothing
C22_Witness ==
  /\ FpLedsInHand
  /\ iter.outReady
  /\ iter.smi = "on"
  /\ iter.smm = 0
  /\ smcPc = "clock"
  /\ smcPCIState.smiIntEnabledReg = U32(SMI_INT_ENABLED)
  /\ smcPCIState.smiIntPendingReg = U32(SMI_INT_NONE)

UnknownInHand(it) == it.handled /\ it.cmd \in UnknownIds

\* C23: from the switch step of a message whose byte 0 is no known command ID
\* to the end of the iteration, the FIFO buffer holds the 16 bytes the guest
\* wrote, and no step changes the HANA register file, the running flag or the
\* core state.
C23_UnknownUntouched ==
  [][UnknownInHand(iter') =>
       /\ fifoDataBuffer' = gMsg'
       /\ iter'.req = gMsg'
       /\ hanaState' = hanaState
       /\ XeRunning' = XeRunning
       /\ smcCore' = smcCore
       /\ RebootCalls(ev') = <<>>]_vars

C23_Witness ==
  /\ UnknownInHand(iter)
  /\ iter.cmd = 238
  /\ iter.outReady
  /\ fifoDataBuffer = gMsg
  /\ At(fifoDataBuffer, 15) = 32

\* the commands for which the SMC writes a response
RespondingIds ==
  {SMC_PWRON_TYPE, SMC_QUERY_RTC, SMC_QUERY_TEMP_SENS, SMC_QUERY_TRAY_STATE,
   SMC_QUERY_AVPACK, SMC_QUERY_VERSION, SMC_SET_STANDBY, SMC_I2C_READ_WRITE}

SettingOutReady == smcPc = "setOutReady" /\ smcPc' # "setOutReady"

\* C24: for every command the SMC answers, I2C_READ_WRITE with any sub-op
\* included, byte 0 of the buffer at the moment FIFO_OUT_STATUS is set READY is
\* byte 0 of the message the guest sent.
C24_EchoesCommand ==
  [][(SettingOutReady /\ At(gMsg, 0) \in RespondingIds) =>
       /\ smcPCIState'.fifoOutStatusReg = U32(FIFO_STATUS_READY)
       /\ At(fifoDataBuffer', 0) = At(gMsg, 0)
       /\ iter.cmd = At(gMsg, 0)]_vars

\* the I2C sub-op none of the cases knows, answered with status 1
C24_Witness ==
  /\ iter.outReady
  /\ iter.cmd = SMC_I2C_READ_WRITE
  /\ At(iter.req, 1) = 119
  /\ At(fifoDataBuffer, 0) = SMC_I2C_READ_WRITE
  /\ At(fifoDataBuffer, 1) = 1
  /\ smcPCIState.fifoOutStatusReg = U32(FIFO_STATUS_READY)

(***************************************************************************)
(* The shutdown handler                                                    *)
(***************************************************************************)
\* the step is one of run i of the handler
HandlerStepped(i) ==
  \/ handlers'[i] # handlers[i]
  \/ ev' \in {<< <<"Base::exit", i>> >>, << <<"Base::fexit", i>> >>}

HandlerAt(i, pc) == i \in DOMAIN handlers /\ handlers[i].pc = pc

ForceExited == procExit' \in {"exit", "fexit"}

C26_FirstAndSecondSignal ==
  [][\A i \in DOMAIN handlers : HandlerStepped(i) =>
       /\ (HandlerAt(i, "hup") /\ hupflag = 0) =>
            /\ procExit' = "none"
            /\ handlers'[i].pc = "setHup"
            /\ hupflag' = hupflag /\ XeRunning' = XeRunning
       /\ HandlerAt(i, "setHup") =>
            /\ procExit' = "none"
            /\ hupflag' = 1
            /\ XeRunning' = XeRunning
            /\ handlers'[i].pc = "setRunning"
       /\ HandlerAt(i, "setRunning") =>
            /\ procExit' = "none"
            /\ hupflag = 1 /\ hupflag' = 1
            /\ ~XeRunning'
            /\ handlers'[i].pc = "sleep"
            /\ handlers'[i].wake = now + HANDLER_WAIT_MS
       /\ (HandlerAt(i, "hup") /\ hupflag # 0) =>
            /\ procExit' = "fexit"
            /\ hupflag' = hupflag
            /\ XeRunning' = XeRunning
            /\ handlers' = handlers
            /\ shutdowns' = shutdowns]_vars

\* the second signal has force-exited the process during the first one's wait
C26_Witness ==
  /\ procExit = "fexit"
  /\ ~XePaused
  /\ HandlerAt(1, "sleep")
  /\ HandlerAt(2, "hup")
  /\ hupflag = 1
  /\ ~XeRunning
  /\ now < handlers[1].wake

\* C27: when a handler's 15-second wait ends with the process still alive, the
\* handler force-exits the process, whether or not XeShutdonSignaled is set.
C27_TimeoutForceExits ==
  [][\A i \in DOMAIN handlers :
       (HandlerAt(i, "sleep") /\ Alive /\ HandlerStepped(i)) => ForceExited]_vars

(***************************************************************************)
(* The SMC thread's loop head                                              *)
(***************************************************************************)
\* C28: once running is false the SMC thread, fairly scheduled, leaves its main
\* loop at its next loop-head check.
C28_ExitsAtLoopHead ==
  [][(smcPc = "loop" /\ ~XeRunning /\ smcPc' # smcPc) => smcPc' = "done"]_vars

(***************************************************************************)
(* Accesses at undocumented offsets                                        *)
(***************************************************************************)
OddDid(ops) == gSent' = gSent + 1 /\ gPc'[1] \in ops

\* C29: at an offset that is no register of the SMC or of the bridge's own
\* window, a Read leaves zero in the destination bytes whatever they held
\* before, and a Write or MemSet changes no register, buffer or cursor.
C29_UnimplementedRegister ==
  [][/\ OddDid({"smcRead", "bridgeRead"}) =>
          /\ lastRead' = ZeroWord
          /\ Dev' = Dev /\ pciBridgeState' = pciBridgeState
     /\ OddDid({"smcWrite", "smcMemSet", "bridgeStore"}) =>
          Dev' = Dev /\ pciBridgeState' = pciBridgeState]_vars

(***************************************************************************)
(* The SMC thread's mutex                                                  *)
(***************************************************************************)
Collaborators == {"Reboot", "RouteInterrupt(SMM)", "RouteInterrupt(CLOCK)"}

\* how many times the thread holds its mutex after the first k entries of trace t
LockDepth(t, k) ==
  Cardinality({j \in 1..k : t[j] = "lock"}) - Cardinality({j \in 1..k : t[j] = "unlock"})

LocksBalanced(t) ==
  /\ \A k \in 0..Len(t) : LockDepth(t, k) \in {0, 1}
  /\ LockDepth(t, Len(t)) = 0

\* C30: the SMC thread calls XeMain::Reboot, RouteInterrupt(SMM) and
\* RouteInterrupt(CLOCK) with its mutex released, and the mutex is balanced:
\* never locked twice, never unlocked while not held, released at the end of
\* every loop iteration.
C30_CallsOutsideMutex ==
  /\ LocksBalanced(iter.locks)
  /\ \A k \in 1..Len(iter.locks) :
       iter.locks[k] \in Collaborators => LockDepth(iter.locks, k - 1) = 0

(***************************************************************************)
(* The HANA override                                                       *)
(***************************************************************************)
\* the value the override gives register 0xFE for a console revision
OverrideValue(rev) ==
  CASE rev = "Xenon" -> 1
    [] rev \in {"Falcon", "Jasper"} -> 33
    [] rev \in {"Trinity", "Corona", "Corona4GB", "Winchester"} -> 35
    [] OTHER -> -1

Baseline(rev) == HanaTable(HanaImage(rev).table)

\* C31: once the SMC thread has started, HANA register 0xFE holds 0x01 for
\* Xenon, 0x21 for Falcon and Jasper, 0x23 for Trinity, Corona, Corona4GB and
\* Winchester and the baseline value for Zephyr, and no other register differs
\* from the baseline.
C31_HanaOverride ==
  smcPc # "start" =>
     LET rev == smcCore.revision IN
     /\ HanaGet(hanaState, 254) =
          IF OverrideValue(rev) = -1 THEN Baseline(rev)[254] ELSE U32(OverrideValue(rev))
     /\ \A i \in 0..255 : i # 254 => HanaGet(hanaState, i) = Baseline(rev)[i]

(***************************************************************************)
(* The message the SMC dispatches on                                       *)
(***************************************************************************)
\* C32: the SMC dispatches on exactly the 16 bytes the guest wrote for the
\* message it completed, under every interleaving: the buffer at the switch is
\* one whole message of the guest, and it is the guest's last one unless the
\* guest has gone on to write the next.
C32_DispatchesWhatWasSent ==
  [][Dispatching =>
       /\ fifoDataBuffer \in RaceMsgs
       /\ gPc[1] \in {"idle", "pollOut"} => fifoDataBuffer = gMsg]_vars

(***************************************************************************)
(* A guest that stores to and loads from the FIFO data registers with any  *)
(* access size and without counting its accesses, the SMC thread idle.     *)
(* gPc = <<the guest's last access, its size>>.                            *)
(***************************************************************************)
\* accesses the guest makes in a run that moves the FIFO cursor freely
MaxCursorOps == 5

CursorOp(op, size) ==
  /\ gSent < MaxCursorOps
  /\ gSent' = gSent + 1
  /\ gPc' = <<op, size>>
  /\ gMsg' = gMsg

CursorAnnounce ==
  /\ CursorOp("announce", 4)
  /\ GuestWriteCore(FIFO_IN_STATUS_REG, U32(FIFO_STATUS_READY), 4)

CursorOutReset ==
  /\ CursorOp("outReset", 4)
  /\ GuestWriteCore(FIFO_OUT_STATUS_REG, U32(FIFO_STATUS_READY), 4)

CursorWrite ==
  \E size \in AccessSizes :
    /\ CursorOp("write", size)
    /\ GuestWriteCore(FIFO_IN_DATA_REG, [k \in 1..size |-> 16 + k], size)

CursorMemSet ==
  \E size \in AccessSizes :
    /\ CursorOp("memset", size)
    /\ GuestMemSetCore(FIFO_IN_DATA_REG, 90, size)

CursorRead ==
  \E size \in AccessSizes :
    /\ CursorOp("read", size)
    /\ GuestReadCore(FIFO_OUT_DATA_REG, size)
    /\ lastRead' = SMC_Read(Dev, FIFO_OUT_DATA_REG, size,
                            [k \in 1..size |-> 0], 0, FALSE, 0).data

NextCursor ==
  \/ CursorAnnounce
  \/ CursorOutReset
  \/ CursorWrite
  \/ CursorMemSet
  \/ CursorRead

SpecCursor == Init /\ [][NextCursor]_vars

\* C33: at every guest access to FIFO_IN_DATA (Write, MemSet) and to
\* FIFO_OUT_DATA (Read), of any size in {1,2,4,8}, the bytes touched lie inside
\* the 16-byte buffer: the cursor before the access plus the size is at most 16.
C33_AccessInsideBuffer ==
  [][gPc'[1] \in {"write", "memset", "read"}
       => fifoBufferPos + gPc'[2] <= FIFO_SIZE]_vars

(***************************************************************************)
(* PCIBridge::Write and PCIBridge::RouteInterrupt on two threads.  The      *)
(* bridge has no lock: Write stores hexData, intEnabled, latched, targetCPU *)
(* and cpuIRQ one after the other and RouteInterrupt loads intEnabled and   *)
(* then targetCPU, so the loads of one thread fall between the stores of    *)
(* the other.  gPc = <<the field Write stored last, the register's offset,  *)
(* the words stored in each register so far>>, gMsg = the word being       *)
(* stored, lastRead = the source whose intEnabled RouteInterrupt found set. *)
(***************************************************************************)
TearOffsets == {16, 28}

TearFieldOrder == <<"hexData", "intEnabled", "latched", "targetCPU", "cpuIRQ">>

\* the store of one member of the priority register by PCIBridge::Write
TearField(reg, field, data, size) ==
  IF field = "hexData"
  THEN [reg EXCEPT !.hexData = Memcpy(@, data, size)]
  ELSE [reg EXCEPT ![field] = PrioFields(Tmp64(data, size))[field]]

TearHistory ==
  IF gPc[1] # "idle" THEN gPc[3] ELSE [off \in TearOffsets |-> <<ZeroWord>>]

TearWriteBegin ==
  /\ gPc[1] \in {"idle", "cpuIRQ"}
  /\ gSent < MaxPrioWrites
  /\ \E off \in TearOffsets, data \in PrioWordMenu :
       /\ pciBridgeState' = [pciBridgeState EXCEPT ![PrioRegSource(off)] =
                               TearField(@, "hexData", data, 4)]
       /\ gPc' = <<"hexData", off, [TearHistory EXCEPT ![off] = Append(@, data)]>>
       /\ gMsg' = data
  /\ gSent' = gSent + 1
  /\ ev' = NoEv
  /\ UNCHANGED <<smcDevVars, hanaState, smcCore, lifeVars, busVars, cfgVars, thrVars, runVars,
                 now, lastRead, histVars>>

TearWriteField ==
  /\ \E k \in 1..4 :
       /\ gPc[1] = TearFieldOrder[k]
       /\ pciBridgeState' = [pciBridgeState EXCEPT ![PrioRegSource(gPc[2])] =
                               TearField(@, TearFieldOrder[k + 1], gMsg, 4)]
       /\ gPc' = <<TearFieldOrder[k + 1], gPc[2], gPc[3]>>
  /\ ev' = NoEv
  /\ UNCHANGED <<smcDevVars, hanaState, smcCore, lifeVars, busVars, cfgVars, thrVars, runVars,
                 now, gMsg, gSent, lastRead, histVars>>

\* RouteInterrupt(prio): the test of intEnabled
TearRouteTest ==
  /\ lastRead = <<>>
  /\ \E prio \in {PrioRegSource(off) : off \in TearOffsets} :
       /\ lastRead' = IF pciBridgeState[prio].intEnabled THEN <<prio>> ELSE <<>>
       /\ ev' = << <<"RouteInterrupt", prio>> >>
  /\ UNCHANGED <<smcDevVars, hanaState, smcCore, lifeVars, busVars, cfgVars, thrVars, runVars,
                 pciBridgeState, now, guestVars, histVars>>

\* RouteInterrupt(prio): genInterrupt with the targetCPU loaded now
TearRouteGen ==
  /\ lastRead # <<>>
  /\ ev' = << <<"genInterrupt", lastRead[1], pciBridgeState[lastRead[1]].targetCPU>> >>
  /\ lastRead' = <<>>
  /\ UNCHANGED <<smcDevVars, hanaState, smcCore, lifeVars, busVars, cfgVars, thrVars, runVars,
                 pciBridgeState, now, guestVars, histVars>>

NextTear ==
  \/ TearWriteBegin
  \/ TearWriteField
  \/ TearRouteTest
  \/ TearRouteGen

SpecTear == Init /\ [][NextTear]_vars

\* the words stored so far in the priority register of source prio, the
\* register's initial zero word first
TearWords(prio) ==
  TearHistory[CHOOSE off \in TearOffsets : PrioRegSource(off) = prio]

\* C34: a genInterrupt issued by a RouteInterrupt that runs beside a Write to
\* the source's priority register targets the CPU of one single stored word
\* whose enable bit is set (the previous word or the new one), never the
\* enable bit of one word with the target of another.
C34_PairFromOneWord ==
  [][\A k \in 1..Len(ev') :
       ev'[k][1] = "genInterrupt" =>
         \E j \in 1..Len(TearWords(ev'[k][2])) :
           LET f == PrioFields(Tmp64(TearWords(ev'[k][2])[j], 4)) IN
           f.intEnabled /\ f.targetCPU = ev'[k][3]]_vars

(***************************************************************************)
(* A guest that stores to the priority registers with any access size,     *)
(* through PCIBridge::Write and PCIBridge::MemSet.  gPc = <<the call, the   *)
(* register's offset, the size>>, gMsg = the bytes stored.                 *)
(***************************************************************************)
PartOffsets == {16, 28}

PartWordMenu == {U64(8389120), U64(10486533)}

PartByteMenu == {0, 255}

PartStore(call, off, bytes, size) ==
  /\ pciBridgeState' = BridgeStore(pciBridgeState, off, bytes, size)
  /\ ev' = << <<call, off, size>> >>
  /\ gPc' = <<call, off, size>>
  /\ gMsg' = bytes
  /\ gSent' = gSent + 1
  /\ UNCHANGED <<smcDevVars, hanaState, smcCore, lifeVars, busVars, cfgVars, thrVars, runVars,
                 now, lastRead, histVars>>

PartWrite ==
  \E off \in PartOffsets, data \in PartWordMenu, size \in AccessSizes :
    /\ gSent < MaxPrioWrites
    /\ PartStore("Write", off, [k \in 1..size |-> data[k]], size)

PartMemSet ==
  \E off \in PartOffsets, data \in PartByteMenu, size \in AccessSizes :
    /\ gSent < MaxPrioWrites
    /\ PartStore("MemSet", off, [k \in 1..size |-> data], size)

NextPart ==
  \/ PartWrite
  \/ PartMemSet

SpecPart == Init /\ [][NextPart]_vars

\* C35: for each wired source the derived fields are those of the stored raw
\* word: intEnabled = bit 23 of hexData, latched = bit 21, targetCPU = bits
\* 8..13, after any Write or MemSet to the register, of size 1 or 2 included.
C35_FieldsMatchRaw ==
  \A src \in WiredSources :
    LET reg == pciBridgeState[src]
        f == PrioFields(Tmp64(reg.hexData, 4))
    IN /\ reg.intEnabled = f.intEnabled
       /\ reg.latched = f.latched
       /\ reg.targetCPU = f.targetCPU

\* the loop's test of FIFO_IN_STATUS finds BUSY: a command is taken
TakesCommand == smcPc = "loop" /\ smcPc' = "setOutBusy"

\* C36: the SMC takes a command only when a guest store has left
\* FIFO_IN_STATUS BUSY since the last command it took -- none at start-up
\* before a guest store, none twice for one store -- and dispatches at most
\* once in the iteration that took it.
C36_OncePerBusyStore ==
  [][/\ TakesCommand => busyStored
     /\ Dispatching => ~iter.handled]_vars

\* a command was dispatched and the store that asked for it is used up
C36_Witness == iter.handled /\ ~busyStored

(***************************************************************************)
(* The clock section of the SMC loop beside a guest that also programs the *)
(* bridge's CLOCK priority register.                                       *)
(***************************************************************************)
\* the guest stores a word in the CLOCK priority register (0xEA000010):
\* enabled for CPU 2, or disabled
TickBridgeWrite ==
  \E data \in {U32(8389120), U32(256)} :
    /\ pciBridgeState["CLOCK"].hexData # data
    /\ GuestBridgeWrite(16, data, 4)

NextTick ==
  \/ Advance
  \/ GuestClockEnable
  \/ GuestClockAck
  \/ TickBridgeWrite
  \/ SmcStart
  \/ SmcFifoIdle
  \/ SmcClockEnabled
  \/ SmcClockStatus
  \/ SmcClockStamp
  \/ SmcClockRaise

SpecTick == Init /\ [][NextTick]_vars

\* C37: a step of the SMC that sets clockIntStatusReg to CLCK_INT_TAKEN issues
\* IIC.genInterrupt(PRIO_CLOCK, cpu) in that same step, whatever the bridge's
\* intEnabled bit for CLOCK holds.
C37_TakenMeansDelivered ==
  [][(SmcStepped /\ smcPCIState.clockIntStatusReg # U32(CLCK_INT_TAKEN)
                 /\ smcPCIState'.clockIntStatusReg = U32(CLCK_INT_TAKEN))
       => \E k \in 1..Len(ev') : ev'[k][1] = "genInterrupt" /\ ev'[k][2] = "CLOCK"]_vars

\* C38: XeMain::Shutdown is invoked at most once in a run of the process,
\* whether main() calls it after its loop or the shutdown handler after its
\* wait, the handler running on the main thread or on another one.
C38_ShutdownOnce == Len(shutdowns) <= 1

\* C39: XeRunning starts true and no step sets it back to true once it is
\* false: SET_STANDBY in the SMC, the shutdown handler and the renderer's quit
\* event only ever store false.
C39_RunningMonotone ==
  /\ XeRunning = TRUE
  /\ [][~XeRunning => ~XeRunning']_vars

\* running is false after the shutdown handler stored it and the SMC handled a
\* SET_STANDBY
C39_Witness ==
  /\ ~XeRunning
  /\ \E i \in DOMAIN handlers : handlers[i].pc = "sleep"
  /\ iter.handled
  /\ iter.cmd = SMC_SET_STANDBY

(***************************************************************************)
(* Configuration accesses of any size at any offset of the 256-byte bank,  *)
(* to the bridge's own configuration space (bus 0, device 0) and to the    *)
(* SMC's.  gPc = <<the call, regOffset, size>>.                            *)
(***************************************************************************)
\* configuration accesses the guest makes in a run that goes up to the bank's end
MaxEdgeOps == 2

EdgeOffsets == {0, 60, 249, 252, 255}

\* the `size` bytes the guest stores
EdgeData(size) == [k \in 1..size |-> 16 + k]

EdgeOp(call, off, size) ==
  /\ gSent < MaxEdgeOps
  /\ gSent' = gSent + 1
  /\ gPc' = <<call, off, size>>
  /\ gMsg' = gMsg
  /\ ev' = << <<call, off, size>> >>

EdgeSmcConfigWrite ==
  \E off \in EdgeOffsets, size \in AccessSizes :
    /\ EdgeOp("SMC.ConfigWrite", off, size)
    /\ pciConfigSpace' = SMC_ConfigWrite(pciConfigSpace, pciDevSizes, off,
                                         EdgeData(size), size, 0)
    /\ UNCHANGED <<smcDevVars, hanaState, smcCore, lifeVars, busVars, pciDevSizes, thrVars, runVars,
                   pciBridgeState, now, lastRead, histVars>>

EdgeSmcConfigRead ==
  \E off \in EdgeOffsets, size \in AccessSizes :
    /\ EdgeOp("SMC.ConfigRead", off, size)
    /\ lastRead' = SMC_ConfigRead(pciConfigSpace, off, size)
    /\ UNCHANGED <<smcDevVars, hanaState, smcCore, lifeVars, busVars, cfgVars, thrVars, runVars,
                   pciBridgeState, now, histVars>>

EdgeBridgeAddr(off) == [busNum |-> 0, devNum |-> 0, functNum |-> 0, regOffset |-> off]

EdgeBridgeConfigWrite ==
  \E off \in EdgeOffsets, size \in AccessSizes :
    /\ EdgeOp("PCIBridge.ConfigWrite", off, size)
    /\ pciBridgeConfig' = PCIBridge_ConfigWrite(BusNow, EdgeBridgeAddr(off),
                                                EdgeData(size), size).bridgeCfg
    /\ UNCHANGED <<smcDevVars, hanaState, smcCore, lifeVars, connectedPCIDevices, busFault,
                   cfgVars, thrVars, runVars, pciBridgeState, now, lastRead, histVars>>

EdgeBridgeConfigRead ==
  \E off \in EdgeOffsets, size \in AccessSizes :
    /\ EdgeOp("PCIBridge.ConfigRead", off, size)
    /\ lastRead' = PCIBridge_ConfigRead(BusNow, EdgeBridgeAddr(off), size,
                                        [k \in 1..size |-> 170]).data
    /\ UNCHANGED <<smcDevVars, hanaState, smcCore, lifeVars, busVars, cfgVars, thrVars, runVars,
                   pciBridgeState, now, histVars>>

NextEdge ==
  \/ EdgeSmcConfigWrite
  \/ EdgeSmcConfigRead
  \/ EdgeBridgeConfigWrite
  \/ EdgeBridgeConfigRead

SpecEdge == Init /\ [][NextEdge]_vars

\* C40: a ConfigRead or ConfigWrite of size 1, 2, 4 or 8 at a regOffset in
\* 0..255, on the bridge's own configuration space or on the SMC's, touches
\* only bytes at offsets below 256: the bytes of the access end at or before
\* the bank's end, or the access is not performed.
C40_InsideBank ==
  [][\A k \in 1..Len(ev') :
       ev'[k][2] + ev'[k][3] > 256 =>
         /\ pciBridgeConfig' = pciBridgeConfig
         /\ pciConfigSpace' = pciConfigSpace
         /\ lastRead' = lastRead]_vars

====
